---- MODULE Spec2Model ----
(***************************************************************************)
(* assetio: the Asset builder (operation log), the operation dispatcher    *)
(* (AssetRendererService.processOperations), the batch backend            *)
(* (SubmoduleAssetRendererMagickProcessor), the overlay/group compositor   *)
(* and the mask engine (applyMask), as state machines.                     *)
(*                                                                         *)
(* Pixel buffers are modelled as the sequence of effects that produced     *)
(* them: the first element names the decoded source, every later element   *)
(* names one applied operation and the algorithm that applied it.          *)
(***************************************************************************)
EXTENDS Integers, Sequences, FiniteSets, TLC

\* ------------------------------------------------------------------------
\* Bounds of the model
\* ------------------------------------------------------------------------
MaxCalls == 2
MaxOps == 2
MaxDirectOps == 3
MaxDepth == 3
CanvasPixels == 3
TickMs == 30000

\* ------------------------------------------------------------------------
\* Program constants
\* ------------------------------------------------------------------------
PROBE_TIMEOUT_MS == 10000
EXEC_TIMEOUT_MS == 60000
DEFAULT_BLUR_INTENSITY == 1
DEFAULT_BLUR_MODE == "pixel"
DEFAULT_OVERLAY_ANCHOR == "top-left"
DEFAULT_OVERLAY_POSITION == [x |-> 0, y |-> 0]

Assets == {"a1", "a2"}

\* optional values: <<>> is undefined, <<v>> is v
Some(v) == <<v>>
None == <<>>
IsDefined(o) == Len(o) > 0
OrElse(o, d) == IF IsDefined(o) THEN o[1] ELSE d

\* a placement value: a number (pct = FALSE) or a percentage string "n%"
Px(n) == [n |-> n, pct |-> FALSE]
Pct(n) == [n |-> n, pct |-> TRUE]
Point(x, y) == [x |-> Some(Px(x)), y |-> Some(Px(y))]

\* ------------------------------------------------------------------------
\* Operation records (src/asset/types.ts AssetOperation); every variant is
\* padded to one record shape, the fields a variant has not stay neutral.
\* A position is a JavaScript object: ref = "own" when the operation holds
\* an object of its own, otherwise the name of the caller's object it shares.
\* ------------------------------------------------------------------------
OwnPosition(p) == [ref |-> "own", val |-> p]
SharedPosition(name) == [ref |-> name, val |-> DEFAULT_OVERLAY_POSITION]

EmptyOperation ==
  [type |-> "none", content |-> "none", anchor |-> "none",
   position |-> OwnPosition(DEFAULT_OVERLAY_POSITION), mask |-> "none",
   layers |-> <<>>, area |-> <<>>, points |-> <<>>,
   mode |-> "none", intensity |-> 0, width |-> None, height |-> None,
   variant |-> "none"]

VARIABLES
  operations,   \* Asset.operations, per asset
  args,         \* the caller's argument objects (mutable, caller-owned)
  lastCall,     \* outcome of the latest builder call
  ncalls,       \* number of API calls made so far
  recorded,     \* history: per asset, the value of every operation when recorded
  returned,     \* the array the latest getOperations() handed to the caller
  input,        \* Asset.input, per asset
  direct,       \* arguments of a direct AssetRendererService.processOperations call
  stack,        \* per task: the chain of pending processOperations/export calls
  mag,          \* per task: the batch backend call in flight
  cachedMagickCommand,
  tempDirs,     \* the temporary directories that exist on disk
  nextDir,      \* mkdtemp makes a fresh name every time
  result,       \* per task: how the outermost call settled
  fellBack,     \* history: per task, whether the batch backend used its fallback
  maskContent,  \* applyMask: the alpha of the content buffer, pixel by pixel
  maskShape,    \* applyMask: the shape of the clip mask
  maskRuns,     \* history: the applyMask calls made, each with its output
  call,         \* a call of a pure function of the library: its arguments, then its outcome
  registry,     \* Font.registry: per family, the sources registered
  fontLoads,    \* the Font.load calls made: arguments and position
  loadOrder     \* history: per family, the distinct sources in the order of their first load call

buildVars == <<operations, args, lastCall, ncalls, recorded, returned>>

renderVars == <<input, direct, stack, mag, cachedMagickCommand, tempDirs, nextDir,
                result, fellBack>>

maskVars == <<maskContent, maskShape, maskRuns>>

libraryVars == <<call, registry, fontLoads, loadOrder>>

vars == <<operations, args, lastCall, ncalls, recorded, returned,
          input, direct, stack, mag, cachedMagickCommand, tempDirs, nextDir,
          result, fellBack, maskContent, maskShape, maskRuns,
          call, registry, fontLoads, loadOrder>>

\* ------------------------------------------------------------------------
\* Asset builder (src/asset/index.ts)
\* ------------------------------------------------------------------------
Deref(p) == IF p.ref = "own" THEN p.val ELSE args[p.ref]

\* the value an operation has now, every shared object read through
ValueOf(op) ==
  [op EXCEPT !.position = OwnPosition(Deref(op.position)),
             !.layers = [i \in DOMAIN op.layers |->
                           [op.layers[i] EXCEPT !.position = OwnPosition(Deref(op.layers[i].position))]]]

toPlacementNumber(value) == value.n

hasMixedBlurPointUnits(points) ==
  \/ Cardinality({points[i].x[1].pct : i \in DOMAIN points}) > 1
  \/ Cardinality({points[i].y[1].pct : i \in DOMAIN points}) > 1

\* atan2(dy, dx) falls in one of four sections of (-pi, pi], in ascending order
AngleSection(dx, dy) ==
  IF dy < 0 THEN 0
  ELSE IF dy = 0 /\ dx >= 0 THEN 1
  ELSE IF dy > 0 THEN 2
  ELSE 3

AngleLess(ax, ay, bx, by) ==
  \/ AngleSection(ax, ay) < AngleSection(bx, by)
  \/ /\ AngleSection(ax, ay) = AngleSection(bx, by)
     /\ AngleSection(ax, ay) \in {0, 2}
     /\ ax * by - ay * bx > 0

toOrderedBlurPoints(points) ==
  IF Len(points) < 3 \/ hasMixedBlurPointUnits(points) THEN points
  ELSE
    LET n == Len(points)
        X(i) == toPlacementNumber(points[i].x[1])
        Y(i) == toPlacementNumber(points[i].y[1])
        RECURSIVE Sum(_, _)
        Sum(F(_), i) == IF i = 0 THEN 0 ELSE F(i) + Sum(F, i - 1)
        \* the vector from the centroid, scaled by n to stay in the integers
        DX(i) == n * X(i) - Sum(X, n)
        DY(i) == n * Y(i) - Sum(Y, n)
        Dist(i) == DX(i) * DX(i) + DY(i) * DY(i)
        Before(i, j) ==
          \/ AngleLess(DX(i), DY(i), DX(j), DY(j))
          \/ /\ ~AngleLess(DX(j), DY(j), DX(i), DY(i))
             /\ \/ Dist(i) < Dist(j)
                \/ Dist(i) = Dist(j) /\ i < j
        Rank(i) == Cardinality({j \in 1..n : Before(j, i)})
        orderedPoints == [k \in 1..n |-> CHOOSE i \in 1..n : Rank(i) = k - 1]
        Lower(i, j) == Y(i) < Y(j) \/ (Y(i) = Y(j) /\ X(i) < X(j))
        firstPointIndex ==
          CHOOSE k \in 1..n :
            /\ \A m \in 1..n : ~Lower(orderedPoints[m], orderedPoints[k])
            /\ \A m \in 1..(k - 1) : Lower(orderedPoints[k], orderedPoints[m])
    IN [k \in 1..n |-> points[orderedPoints[((firstPointIndex - 1 + k - 1) % n) + 1]]]

RecordReplacingLast(a, op, method) ==
  /\ operations' = [operations EXCEPT ![a] = IF @ = <<>> THEN <<op>>
                                              ELSE Append(SubSeq(@, 1, Len(@) - 1), op)]
  /\ recorded' = [recorded EXCEPT ![a] = Append(@, ValueOf(op))]
  /\ lastCall' = [method |-> method, asset |-> a, threw |-> FALSE, returned |-> a]

Record(a, op, method) ==
  /\ operations' = [operations EXCEPT ![a] = Append(@, op)]
  /\ recorded' = [recorded EXCEPT ![a] = Append(@, ValueOf(op))]
  /\ lastCall' = [method |-> method, asset |-> a, threw |-> FALSE, returned |-> a]

Throw(a, method) ==
  /\ lastCall' = [method |-> method, asset |-> a, threw |-> TRUE, returned |-> "none"]
  /\ UNCHANGED <<operations, recorded>>

BuilderCall ==
  /\ ncalls < MaxCalls
  /\ ncalls' = ncalls + 1
  /\ UNCHANGED <<args, returned>>
  /\ UNCHANGED <<renderVars, maskVars, libraryVars>>

BlurIntensities == {None, Some(0), Some(4)}

BlurAcceptsTwoPoints(points, intensity) ==
  /\ Len(points) >= 2
  /\ \A i \in DOMAIN points : IsDefined(points[i].x) /\ IsDefined(points[i].y)
  /\ intensity > 0

BlurAccepts(points, intensity) ==
  /\ Len(points) >= 3
  /\ \A i \in DOMAIN points : IsDefined(points[i].x) /\ IsDefined(points[i].y)
  /\ intensity > 0

Blur(a) ==
  /\ BuilderCall
  /\ \E optIntensity \in BlurIntensities :
       LET points == args.points
           intensity == OrElse(optIntensity, DEFAULT_BLUR_INTENSITY)
       IN IF ~BlurAccepts(points, intensity) THEN Throw(a, "blur")
          ELSE Record(a, [EmptyOperation EXCEPT !.type = "blur",
                                                !.points = toOrderedBlurPoints(points),
                                                !.mode = DEFAULT_BLUR_MODE,
                                                !.intensity = intensity], "blur")

OverlayContents == {"shape", "a1", "a2"}

\* options?.position ?? { ...DEFAULT_OVERLAY_POSITION }
OverlayPosition(given) ==
  IF given THEN SharedPosition("position") ELSE OwnPosition(DEFAULT_OVERLAY_POSITION)

Overlay(a) ==
  /\ BuilderCall
  /\ \E content \in OverlayContents, given \in BOOLEAN :
       Record(a, [EmptyOperation EXCEPT !.type = "overlay",
                                        !.content = content,
                                        !.anchor = DEFAULT_OVERLAY_ANCHOR,
                                        !.position = OverlayPosition(given),
                                        !.mask = IF given THEN "clip" ELSE "none"], "overlay")

\* layer.position ?? { ...DEFAULT_OVERLAY_POSITION }
LayerPosition(given) ==
  IF given THEN SharedPosition("position") ELSE OwnPosition(DEFAULT_OVERLAY_POSITION)

\* options ? { ...options } : {}
GroupOptionsCopy(given) == IF given THEN args.groupOptions.mask ELSE "none"

GroupAccepts(layers) == Len(layers) # 0

Group(a) ==
  /\ BuilderCall
  /\ \E n \in 0..1, content \in {"shape"}, given \in BOOLEAN, withOptions \in BOOLEAN :
       LET layers == [i \in 1..n |-> [layer |-> content, given |-> given]]
       IN IF ~GroupAccepts(layers) THEN Throw(a, "group")
          ELSE Record(a, [EmptyOperation EXCEPT
                            !.type = "group",
                            !.layers = [i \in 1..n |->
                                          [layer |-> layers[i].layer,
                                           anchor |-> DEFAULT_OVERLAY_ANCHOR,
                                           position |-> LayerPosition(layers[i].given)]],
                            !.mask = GroupOptionsCopy(withOptions)], "group")

CropAccepts(area) ==
  IsDefined(area.x) /\ IsDefined(area.y) /\ IsDefined(area.width) /\ IsDefined(area.height)

Crop(a) ==
  /\ BuilderCall
  /\ IF ~CropAccepts(args.area) THEN Throw(a, "crop")
     ELSE Record(a, [EmptyOperation EXCEPT !.type = "crop", !.area = <<args.area>>], "crop")

ResizeAccepts(width, height) == IsDefined(width) \/ IsDefined(height)

Resize(a) ==
  /\ BuilderCall
  /\ \E width \in {None, Some(100)} :
       IF ~ResizeAccepts(width, None) THEN Throw(a, "resize")
       ELSE Record(a, [EmptyOperation EXCEPT !.type = "resize", !.width = width], "resize")

\* flip(), swirl(degrees), equalize(): no validation that can fail here
PlainTypes == {"flip", "swirl"}

Plain(a) ==
  /\ BuilderCall
  /\ \E type \in PlainTypes : Record(a, [EmptyOperation EXCEPT !.type = type], type)

\* getOperations(): [...this.operations]
getOperations(a) == [alias |-> FALSE, of |-> a, array |-> operations[a]]

GetOperations(a) ==
  /\ ncalls < MaxCalls
  /\ ncalls' = ncalls + 1
  /\ returned' = getOperations(a)
  /\ lastCall' = [method |-> "getOperations", asset |-> a, threw |-> FALSE, returned |-> "array"]
  /\ UNCHANGED <<operations, args, recorded>>
  /\ UNCHANGED <<renderVars, maskVars, libraryVars>>

\* the caller empties the array it got from getOperations()
MutateReturnedArray ==
  /\ returned.of \in Assets
  /\ returned.array # <<>>
  /\ returned' = [returned EXCEPT !.array = <<>>]
  /\ operations' = IF returned.alias THEN [operations EXCEPT ![returned.of] = <<>>]
                   ELSE operations
  /\ UNCHANGED <<args, lastCall, ncalls, recorded>>
  /\ UNCHANGED <<renderVars, maskVars, libraryVars>>

\* the caller's argument objects and the values it may assign to them
Positions == {[x |-> 30, y |-> 40], [x |-> 99, y |-> 40]}
Areas == {[x |-> Some(0), y |-> Some(0), width |-> Some(10), height |-> Some(10)],
          [x |-> Some(0), y |-> Some(0), width |-> None, height |-> Some(10)]}
PointLists == {<<Point(10, 10), Point(0, 0), Point(10, 0)>>,
               <<Point(0, 0), Point(10, 10)>>}
GroupOptionValues == {[mask |-> "none"], [mask |-> "alpha"]}

MutateArgument ==
  /\ \/ \E p \in Positions \ {args.position} : args' = [args EXCEPT !.position = p]
     \/ \E v \in Areas \ {args.area} : args' = [args EXCEPT !.area = v]
     \/ \E v \in PointLists \ {args.points} : args' = [args EXCEPT !.points = v]
     \/ \E v \in GroupOptionValues \ {args.groupOptions} : args' = [args EXCEPT !.groupOptions = v]
  /\ UNCHANGED <<operations, lastCall, ncalls, recorded, returned>>
  /\ UNCHANGED <<renderVars, maskVars, libraryVars>>

NoCall == [method |-> "none", asset |-> "none", threw |-> FALSE, returned |-> "none"]
NoArray == [alias |-> FALSE, of |-> "none", array |-> <<>>]
\* an in-memory source: a Buffer, a Uint8Array or an ArrayBuffer, and the bytes it holds
SourceOf(kind, bytes) == [kind |-> kind, bytes |-> bytes]
NoDirect == [input |-> SourceOf("Buffer", "img"), operations |-> <<>>]
Tasks == {"t1", "t2"}
IdleMagick ==
  [pc |-> "idle", input |-> <<>>, operations |-> <<>>, command |-> "null",
   dir |-> 0, elapsed |-> 0, pending |-> "none", outcome |-> "none", value |-> <<>>]

\* new BaseShape(...): fillValue = null, strokeValue = null
NewShape(geometry) == [geometry |-> geometry, fillValue |-> "null", strokeValue |-> "null"]

\* no pure function has been called; no font has been loaded
NoEvaluation == [fn |-> "none"]
Families == {"Cardo", "Inter"}

LibraryIdle ==
  /\ call = NoEvaluation
  /\ registry = [family \in Families |-> <<>>]
  /\ fontLoads = <<>>
  /\ loadOrder = [family \in Families |-> <<>>]

MaskIdle ==
  /\ maskContent = <<>>
  /\ maskShape = NewShape({})
  /\ maskRuns = {}

RenderIdle ==
  /\ input = [a \in Assets |-> SourceOf("Buffer", "img")]
  /\ direct = NoDirect
  /\ stack = [t \in Tasks |-> <<>>]
  /\ mag = [t \in Tasks |-> IdleMagick]
  /\ cachedMagickCommand = "null"
  /\ tempDirs = {}
  /\ nextDir = 1
  /\ result = [t \in Tasks |-> [status |-> "none"]]
  /\ fellBack = [t \in Tasks |-> FALSE]

InitBuild ==
  /\ operations = [a \in Assets |-> <<>>]
  /\ recorded = [a \in Assets |-> <<>>]
  /\ args = [position |-> [x |-> 30, y |-> 40],
             area |-> [x |-> Some(0), y |-> Some(0), width |-> Some(10), height |-> Some(10)],
             points |-> <<Point(10, 10), Point(0, 0), Point(10, 0)>>,
             groupOptions |-> [mask |-> "alpha"]]
  /\ lastCall = NoCall
  /\ ncalls = 0
  /\ returned = NoArray
  /\ LibraryIdle
  /\ RenderIdle
  /\ MaskIdle

NextBuild ==
  \/ \E a \in Assets : Blur(a)
  \/ \E a \in Assets : Overlay(a)
  \/ \E a \in Assets : Group(a)
  \/ \E a \in Assets : Crop(a)
  \/ \E a \in Assets : Resize(a)
  \/ \E a \in Assets : Plain(a)
  \/ \E a \in Assets : GetOperations(a)
  \/ MutateReturnedArray
  \/ MutateArgument

SpecBuild == InitBuild /\ [][NextBuild]_vars

\* ------------------------------------------------------------------------
\* Properties of the builder
\* ------------------------------------------------------------------------
IsBuilderStep == ncalls' = ncalls + 1 /\ lastCall'.method # "getOperations"

\* C4: the operation list of an asset only ever grows at its end: a step
\* leaves the list of an asset alone or appends exactly one operation, the one
\* of the builder call just made, and that call returns the asset itself; a
\* builder call that returns appends.
C4_AppendOnlyInCallOrder ==
  [][/\ \A a \in Assets :
          \/ operations'[a] = operations[a]
          \/ /\ IsBuilderStep
             /\ Len(operations'[a]) = Len(operations[a]) + 1
             /\ SubSeq(operations'[a], 1, Len(operations[a])) = operations[a]
             /\ operations'[a][Len(operations'[a])].type = lastCall'.method
             /\ lastCall'.asset = a
             /\ lastCall'.returned = a
     /\ (IsBuilderStep /\ ~lastCall'.threw) =>
          /\ lastCall'.returned = lastCall'.asset
          /\ Len(operations'[lastCall'.asset]) = Len(operations[lastCall'.asset]) + 1]_vars

C4_Witness ==
  \E a \in Assets :
    /\ Len(operations[a]) >= 2
    /\ operations[a][1].type # operations[a][2].type
    /\ lastCall.returned = a

\* C5: a recorded operation keeps the value it had when it was recorded,
\* whatever the caller does afterwards to the objects it passed in or to the
\* array it got from getOperations().
C5_RecordedOperationsImmutable ==
  \A a \in Assets :
    /\ Len(operations[a]) = Len(recorded[a])
    /\ \A i \in DOMAIN operations[a] : ValueOf(operations[a][i]) = recorded[a][i]

RecordedOperationValid(op) ==
  /\ op.type = "blur" => Len(op.points) >= 3 /\ op.intensity > 0
  /\ op.type = "group" => Len(op.layers) >= 1
  /\ op.type = "resize" => IsDefined(op.width) \/ IsDefined(op.height)
  /\ op.type = "crop" => /\ IsDefined(op.area[1].x) /\ IsDefined(op.area[1].y)
                         /\ IsDefined(op.area[1].width) /\ IsDefined(op.area[1].height)

\* C6: a builder call that throws leaves every operation list as it was, and
\* every operation in a list passed its validation (so the dispatcher, which
\* reads these lists, never meets one that failed it).
C6_FailedCallRecordsNothing ==
  /\ [](\A a \in Assets : \A i \in DOMAIN operations[a] : RecordedOperationValid(operations[a][i]))
  /\ [][(IsBuilderStep /\ lastCall'.threw) => operations' = operations]_vars

C6_Witness ==
  /\ lastCall.threw
  /\ lastCall.method = "blur"
  /\ Len(operations[lastCall.asset]) > 0


\* ------------------------------------------------------------------------
\* Pixel buffers
\* ------------------------------------------------------------------------
Effect(fx, alg, content) == [fx |-> fx, alg |-> alg, content |-> content]

\* Buffer.from(bytes): a buffer of these bytes, decodable or not
BufferFrom(bytes) == <<Effect("source", bytes, <<>>)>>

\* toSourceBuffer(input): a Buffer is returned as it is, a Uint8Array and an
\* ArrayBuffer go through Buffer.from
toSourceBufferReencoded(src) == Append(BufferFrom(src.bytes), Effect("png", "sharp", <<>>))

toSourceBuffer(src) ==
  CASE src.kind = "Buffer" -> BufferFrom(src.bytes)
    [] src.kind = "Uint8Array" -> BufferFrom(src.bytes)
    [] src.kind = "ArrayBuffer" -> BufferFrom(src.bytes)

\* sharp(...) rejects bytes that are not an image
Decodable(bytes) == bytes # <<>> /\ bytes[1].alg # "bad"

\* RenderService.shape.renderToBuffer(shape)
ShapeBuffer == <<Effect("source", "shape", <<>>)>>

\* ------------------------------------------------------------------------
\* Backends: which operations they declare
\* ------------------------------------------------------------------------
SHARP_SUPPORTED_OPERATION_TYPES ==
  {"blur", "crop", "resize", "rotate", "flip", "flop", "grayscale", "negate",
   "normalize", "sharpen", "unsharpMask", "medianFilter", "gamma", "threshold",
   "border", "convolve"}

MAGICK_SUPPORTED_OPERATION_TYPES ==
  {"blur", "roll", "distort", "equalize", "autoLevel", "autoGamma", "level",
   "linearStretch", "contrast", "posterize", "sepiaTone", "tint", "colorize",
   "threshold", "quantize", "segment", "adaptiveSharpen", "motionBlur",
   "rotationalBlur", "addNoise", "despeckle", "waveletDenoise", "charcoal",
   "sketch", "oilPaint", "emboss", "solarize", "spread", "implode", "swirl",
   "wave", "vignette", "shade", "raise", "polaroid", "fx", "morphology",
   "detectEdges", "frame"}

\* options.type ?? 'global'
ThresholdType(op) == IF op.variant = "none" THEN "global" ELSE op.variant

SharpSupportsEveryThreshold(op) == op.type \in SHARP_SUPPORTED_OPERATION_TYPES

SharpSupports(op) ==
  IF op.type = "threshold" THEN ThresholdType(op) = "global"
  ELSE op.type \in SHARP_SUPPORTED_OPERATION_TYPES

MagickSupportsWithoutFrame(op) == op.type \in MAGICK_SUPPORTED_OPERATION_TYPES \ {"frame"}

MagickSupports(op) == op.type \in MAGICK_SUPPORTED_OPERATION_TYPES

\* ------------------------------------------------------------------------
\* Dispatcher state: one frame per pending processOperations/export call
\* ------------------------------------------------------------------------
NewFrame(kind, asset, dispatch) ==
  [kind |-> kind, asset |-> asset, dispatch |-> dispatch, pc |-> "source",
   index |-> 1, currentBytes |-> <<>>, batch |-> <<>>, content |-> <<>>,
   layer |-> 0, groupBuffer |-> <<>>, error |-> "none",
   batches |-> <<>>,   \* history: the batches this call has handed to the batch backend
   called |-> IF kind = "direct" THEN direct.operations ELSE operations[asset]]
                       \* history: the operations the list held when the call was made

\* the operation array the call reads: Asset.export passes this.operations itself
OperationsOf(f) == IF f.kind = "direct" THEN direct.operations ELSE operations[f.asset]
InputOf(f) == IF f.kind = "direct" THEN direct.input ELSE input[f.asset]

Top(t) == stack[t][Len(stack[t])]
Active(t) == stack[t] # <<>>
SetTop(t, f) == stack' = [stack EXCEPT ![t] = [@ EXCEPT ![Len(@)] = f]]
Failed(f, why) == [f EXCEPT !.pc = "failed", !.error = why]

\* Asset.export({ format: 'bytes' })
StartExport(t, a) ==
  /\ ~Active(t)
  /\ result[t].status = "none"
  /\ stack' = [stack EXCEPT ![t] = <<NewFrame("export", a, Len(operations[a]) > 0)>>]
  /\ UNCHANGED <<input, direct, mag, cachedMagickCommand, tempDirs, nextDir, result, fellBack>>
  /\ UNCHANGED <<buildVars, maskVars, libraryVars>>

\* AssetRendererService.processOperations(input, operations), called directly
StartDirect(t) ==
  /\ ~Active(t)
  /\ result[t].status = "none"
  /\ direct.operations # <<>>
  /\ stack' = [stack EXCEPT ![t] = <<NewFrame("direct", "none", TRUE)>>]
  /\ UNCHANGED <<input, direct, mag, cachedMagickCommand, tempDirs, nextDir, result, fellBack>>
  /\ UNCHANGED <<buildVars, maskVars, libraryVars>>

\* await toSourceBuffer(input) settles
SourceLoaded(t) ==
  /\ Active(t)
  /\ Top(t).pc = "source"
  /\ LET f == Top(t)
         bytes == toSourceBuffer(InputOf(f))
     IN SetTop(t, [f EXCEPT !.currentBytes = bytes,
                            !.pc = IF f.dispatch /\ Len(OperationsOf(f)) # 0
                                   THEN "loop" ELSE "done"])
  /\ UNCHANGED <<input, direct, mag, cachedMagickCommand, tempDirs, nextDir, result, fellBack>>
  /\ UNCHANGED <<buildVars, maskVars, libraryVars>>

\* the inner while loop: the run of operations handed to the batch backend
MagickRunOfOne(ops, index) == <<ops[index]>>

RECURSIVE MagickRun(_, _)
MagickRun(ops, index) ==
  IF /\ index <= Len(ops)
     /\ ops[index].type # "overlay"
     /\ ops[index].type # "group"
     /\ ~SharpSupports(ops[index])
     /\ MagickSupports(ops[index])
  THEN <<ops[index]>> \o MagickRun(ops, index + 1)
  ELSE <<>>

\* magickProcessor.processOperations up to its first await, getMagickCommand()
MagickStart(bytes, ops) ==
  IF ops = <<>> THEN [IdleMagick EXCEPT !.pc = "resolved", !.input = bytes, !.value = bytes]
  ELSE IF \E i \in DOMAIN ops : ~MagickSupports(ops[i])
  THEN [IdleMagick EXCEPT !.pc = "rejected", !.input = bytes, !.operations = ops]
  ELSE IF cachedMagickCommand # "null"
  THEN [IdleMagick EXCEPT !.pc = "gotCommand", !.input = bytes, !.operations = ops,
                          !.command = cachedMagickCommand]
  ELSE [IdleMagick EXCEPT !.pc = "probeMagick", !.input = bytes, !.operations = ops]

UnsupportedSkipped(f, op) == [f EXCEPT !.index = @ + 1]

Unsupported(f, op) == Failed(f, op.type)

\* one turn of the while loop of processOperations, up to its await
Dispatch(t) ==
  /\ Active(t)
  /\ Top(t).pc = "loop"
  /\ LET f == Top(t)
         ops == OperationsOf(f)
     IN IF f.index > Len(ops)
        THEN SetTop(t, [f EXCEPT !.pc = "done"]) /\ UNCHANGED mag
        ELSE LET operation == ops[f.index] IN
          IF operation.type = "overlay"
          THEN SetTop(t, [f EXCEPT !.pc = "overlay"]) /\ UNCHANGED mag
          ELSE IF operation.type = "group"
          THEN SetTop(t, [f EXCEPT !.pc = "group"]) /\ UNCHANGED mag
          ELSE IF SharpSupports(operation)
          THEN SetTop(t, [f EXCEPT !.pc = "sharp"]) /\ UNCHANGED mag
          ELSE IF MagickSupports(operation) /\ Len(MagickRun(ops, f.index)) > 0
          THEN LET magickOperations == MagickRun(ops, f.index) IN
               /\ SetTop(t, [f EXCEPT !.pc = "magick",
                                      !.batch = magickOperations,
                                      !.batches = Append(@, magickOperations),
                                      !.index = f.index + Len(magickOperations)])
               /\ mag' = [mag EXCEPT ![t] = MagickStart(f.currentBytes, magickOperations)]
          ELSE SetTop(t, Unsupported(f, operation)) /\ UNCHANGED mag
  /\ UNCHANGED <<input, direct, cachedMagickCommand, tempDirs, nextDir, result, fellBack>>
  /\ UNCHANGED <<buildVars, maskVars, libraryVars>>

\* await sharpProcessor.processOperation(currentBytes, operation) settles
SharpAppliedSkippingNext(f, op) ==
  [f EXCEPT !.currentBytes = Append(@, Effect(op.type, "sharp", <<>>)),
            !.index = @ + 2,
            !.pc = "loop"]

SharpApplied(f, op) ==
  [f EXCEPT !.currentBytes = Append(@, Effect(op.type, "sharp", <<>>)),
            !.index = @ + 1,
            !.pc = "loop"]

SharpDone(t) ==
  /\ Active(t)
  /\ Top(t).pc = "sharp"
  /\ LET f == Top(t)
         operation == OperationsOf(f)[f.index]
     IN SetTop(t, IF Decodable(f.currentBytes) THEN SharpApplied(f, operation)
                  ELSE Failed(f, "decode"))
  /\ UNCHANGED <<input, direct, mag, cachedMagickCommand, tempDirs, nextDir, result, fellBack>>
  /\ UNCHANGED <<buildVars, maskVars, libraryVars>>


\* ------------------------------------------------------------------------
\* Overlay / group compositor (src/asset/renderer/overlay-compositor.ts)
\* ------------------------------------------------------------------------
\* applyMask(buffer, mask)
Masked(bytes, mask) ==
  IF mask = "none" THEN bytes ELSE Append(bytes, Effect("mask", mask, <<>>))

\* toContentBuffer(content) for an asset: content.export({ format: 'bytes' })
PushExport(t, f, a) ==
  stack' = [stack EXCEPT ![t] = Append([@ EXCEPT ![Len(@)] = f],
                                        NewFrame("export", a, Len(operations[a]) > 0))]

\* processOverlay up to the await of the content buffer
OverlayContent(t) ==
  /\ Active(t)
  /\ Top(t).pc = "overlay"
  /\ LET f == Top(t)
         operation == OperationsOf(f)[f.index]
     IN IF ~Decodable(f.currentBytes) THEN SetTop(t, Failed(f, "decode"))
        ELSE IF operation.content \in Assets
        THEN /\ Len(stack[t]) < MaxDepth
             /\ PushExport(t, [f EXCEPT !.pc = "overlayWait"], operation.content)
        ELSE SetTop(t, [f EXCEPT !.content = ShapeBuffer, !.pc = "overlayComposite"])
  /\ UNCHANGED <<input, direct, mag, cachedMagickCommand, tempDirs, nextDir, result, fellBack>>
  /\ UNCHANGED <<buildVars, maskVars, libraryVars>>

\* processOverlay from the content buffer to the composite onto the base
OverlayComposite(t) ==
  /\ Active(t)
  /\ Top(t).pc = "overlayComposite"
  /\ LET f == Top(t)
         operation == OperationsOf(f)[f.index]
         maskedLayer == Masked(f.content, operation.mask)
     IN SetTop(t, IF ~Decodable(f.content) THEN Failed(f, "decode")
                  ELSE [f EXCEPT !.currentBytes = Append(@, Effect("overlay", "composite", maskedLayer)),
                                 !.content = <<>>,
                                 !.index = @ + 1,
                                 !.pc = "loop"])
  /\ UNCHANGED <<input, direct, mag, cachedMagickCommand, tempDirs, nextDir, result, fellBack>>
  /\ UNCHANGED <<buildVars, maskVars, libraryVars>>

\* processGroup: the transparent canvas of the size of the base
GroupCanvas(t) ==
  /\ Active(t)
  /\ Top(t).pc = "group"
  /\ LET f == Top(t)
     IN SetTop(t, IF ~Decodable(f.currentBytes) THEN Failed(f, "decode")
                  ELSE [f EXCEPT !.groupBuffer = <<Effect("source", "canvas", <<>>)>>,
                                 !.layer = 1,
                                 !.pc = "groupContent"])
  /\ UNCHANGED <<input, direct, mag, cachedMagickCommand, tempDirs, nextDir, result, fellBack>>
  /\ UNCHANGED <<buildVars, maskVars, libraryVars>>

\* processGroup: the content buffer of the next layer
GroupContent(t) ==
  /\ Active(t)
  /\ Top(t).pc = "groupContent"
  /\ LET f == Top(t)
         operation == OperationsOf(f)[f.index]
         layer == operation.layers[f.layer]
     IN IF layer.layer \in Assets
        THEN /\ Len(stack[t]) < MaxDepth
             /\ PushExport(t, [f EXCEPT !.pc = "groupWait"], layer.layer)
        ELSE SetTop(t, [f EXCEPT !.content = ShapeBuffer, !.pc = "groupComposite"])
  /\ UNCHANGED <<input, direct, mag, cachedMagickCommand, tempDirs, nextDir, result, fellBack>>
  /\ UNCHANGED <<buildVars, maskVars, libraryVars>>

\* processGroup: the layer is composited onto the group canvas
GroupCompositeMaskingLayer(t) ==
  /\ Active(t)
  /\ Top(t).pc = "groupComposite"
  /\ LET f == Top(t)
         operation == OperationsOf(f)[f.index]
     IN SetTop(t, IF ~Decodable(f.content) THEN Failed(f, "decode")
                  ELSE [f EXCEPT !.groupBuffer = Append(@, Effect("layer", "composite",
                                                                  Masked(f.content, operation.mask))),
                                 !.content = <<>>,
                                 !.layer = @ + 1,
                                 !.pc = IF f.layer + 1 > Len(operation.layers)
                                        THEN "groupFlatten" ELSE "groupContent"])
  /\ UNCHANGED <<input, direct, mag, cachedMagickCommand, tempDirs, nextDir, result, fellBack>>
  /\ UNCHANGED <<buildVars, maskVars, libraryVars>>

GroupComposite(t) ==
  /\ Active(t)
  /\ Top(t).pc = "groupComposite"
  /\ LET f == Top(t)
         operation == OperationsOf(f)[f.index]
     IN SetTop(t, IF ~Decodable(f.content) THEN Failed(f, "decode")
                  ELSE [f EXCEPT !.groupBuffer = Append(@, Effect("layer", "composite", f.content)),
                                 !.content = <<>>,
                                 !.layer = @ + 1,
                                 !.pc = IF f.layer + 1 > Len(operation.layers)
                                        THEN "groupFlatten" ELSE "groupContent"])
  /\ UNCHANGED <<input, direct, mag, cachedMagickCommand, tempDirs, nextDir, result, fellBack>>
  /\ UNCHANGED <<buildVars, maskVars, libraryVars>>

\* processGroup: the group mask, then the flattened canvas onto the base
GroupFlatten(t) ==
  /\ Active(t)
  /\ Top(t).pc = "groupFlatten"
  /\ LET f == Top(t)
         operation == OperationsOf(f)[f.index]
         groupBuffer == Masked(f.groupBuffer, operation.mask)
     IN SetTop(t, [f EXCEPT !.currentBytes = Append(@, Effect("group", "composite", groupBuffer)),
                            !.groupBuffer = <<>>,
                            !.layer = 0,
                            !.index = @ + 1,
                            !.pc = "loop"])
  /\ UNCHANGED <<input, direct, mag, cachedMagickCommand, tempDirs, nextDir, result, fellBack>>
  /\ UNCHANGED <<buildVars, maskVars, libraryVars>>

\* a nested export settles: its caller resumes, or fails with it
NestedReturn(t) ==
  /\ Len(stack[t]) > 1
  /\ Top(t).pc \in {"done", "failed"}
  /\ LET n == Len(stack[t])
         f == Top(t)
         caller == stack[t][n - 1]
         resumed == IF f.pc = "failed" THEN Failed(caller, f.error)
                    ELSE [caller EXCEPT !.content = f.currentBytes,
                                        !.pc = IF caller.pc = "overlayWait"
                                               THEN "overlayComposite" ELSE "groupComposite"]
     IN stack' = [stack EXCEPT ![t] = Append(SubSeq(@, 1, n - 2), resumed)]
  /\ UNCHANGED <<input, direct, mag, cachedMagickCommand, tempDirs, nextDir, result, fellBack>>
  /\ UNCHANGED <<buildVars, maskVars, libraryVars>>

\* the outermost call settles; a resolved promise carries the bytes and nothing else
Resolved(bytes) == [status |-> "resolved", bytes |-> bytes]
Rejected(why) == [status |-> "rejected", error |-> why]

Settle(t) ==
  /\ Len(stack[t]) = 1
  /\ Top(t).pc \in {"done", "failed"}
  /\ result' = [result EXCEPT ![t] = IF Top(t).pc = "done" THEN Resolved(Top(t).currentBytes)
                                     ELSE Rejected(Top(t).error)]
  /\ stack' = [stack EXCEPT ![t] = <<>>]
  /\ UNCHANGED <<input, direct, mag, cachedMagickCommand, tempDirs, nextDir, fellBack>>
  /\ UNCHANGED <<buildVars, maskVars, libraryVars>>


\* ------------------------------------------------------------------------
\* Batch backend (src/asset/renderer/magick-processor.ts)
\* ------------------------------------------------------------------------
\* timeouts, in clock ticks of TickMs
ProbeTicks == PROBE_TIMEOUT_MS \div TickMs
ExecTicks == EXEC_TIMEOUT_MS \div TickMs

TimeoutTicks(pc) == IF pc = "exec" THEN ExecTicks ELSE ProbeTicks

SetMag(t, m) == mag' = [mag EXCEPT ![t] = m]

\* the external process of a pending execFile keeps running
Tick(t) ==
  /\ mag[t].pc \in {"probeMagick", "probeConvert", "exec"}
  /\ mag[t].elapsed < TimeoutTicks(mag[t].pc)
  /\ SetMag(t, [mag[t] EXCEPT !.elapsed = @ + 1])
  /\ UNCHANGED <<input, direct, stack, cachedMagickCommand, tempDirs, nextDir, result, fellBack>>
  /\ UNCHANGED <<buildVars, maskVars, libraryVars>>

\* an execFile with a timeout fails when the process exits with an error at
\* any time, or when the timeout kills it
MayFail(m, cause) ==
  \/ cause = "failed"
  \/ cause = "timeout" /\ m.elapsed = TimeoutTicks(m.pc)

\* getMagickCommand: `magick -version` succeeded
ProbeMagickOk(t) ==
  /\ mag[t].pc = "probeMagick"
  /\ cachedMagickCommand' = "magick"
  /\ SetMag(t, [mag[t] EXCEPT !.pc = "gotCommand", !.command = "magick", !.elapsed = 0])
  /\ UNCHANGED <<input, direct, stack, tempDirs, nextDir, result, fellBack>>
  /\ UNCHANGED <<buildVars, maskVars, libraryVars>>

\* getMagickCommand: `magick -version` failed, `convert -version` is tried
ProbeMagickFail(t) ==
  /\ mag[t].pc = "probeMagick"
  /\ \E cause \in {"failed", "timeout"} : MayFail(mag[t], cause)
  /\ SetMag(t, [mag[t] EXCEPT !.pc = "probeConvert", !.elapsed = 0])
  /\ UNCHANGED <<input, direct, stack, cachedMagickCommand, tempDirs, nextDir, result, fellBack>>
  /\ UNCHANGED <<buildVars, maskVars, libraryVars>>

ProbeConvertOk(t) ==
  /\ mag[t].pc = "probeConvert"
  /\ cachedMagickCommand' = "convert"
  /\ SetMag(t, [mag[t] EXCEPT !.pc = "gotCommand", !.command = "convert", !.elapsed = 0])
  /\ UNCHANGED <<input, direct, stack, tempDirs, nextDir, result, fellBack>>
  /\ UNCHANGED <<buildVars, maskVars, libraryVars>>

\* getMagickCommand threw: return this.processOperationsFallback(input, operations)
ProbeConvertFail(t) ==
  /\ mag[t].pc = "probeConvert"
  /\ \E cause \in {"failed", "timeout"} : MayFail(mag[t], cause)
  /\ SetMag(t, [mag[t] EXCEPT !.pc = "fallback", !.outcome = "unavailable", !.elapsed = 0])
  /\ fellBack' = [fellBack EXCEPT ![t] = TRUE]
  /\ UNCHANGED <<input, direct, stack, cachedMagickCommand, tempDirs, nextDir, result>>
  /\ UNCHANGED <<buildVars, maskVars, libraryVars>>

MkdtempOfOneName(t) ==
  /\ mag[t].pc = "gotCommand"
  /\ tempDirs' = tempDirs \cup {1}
  /\ nextDir' = nextDir
  /\ SetMag(t, [mag[t] EXCEPT !.pc = "prepare", !.dir = 1])
  /\ UNCHANGED <<input, direct, stack, cachedMagickCommand, result, fellBack>>
  /\ UNCHANGED <<buildVars, maskVars, libraryVars>>

\* await fileSystem.mkdtemp(...)
Mkdtemp(t) ==
  /\ mag[t].pc = "gotCommand"
  /\ tempDirs' = tempDirs \cup {nextDir}
  /\ nextDir' = nextDir + 1
  /\ SetMag(t, [mag[t] EXCEPT !.pc = "prepare", !.dir = nextDir])
  /\ UNCHANGED <<input, direct, stack, cachedMagickCommand, result, fellBack>>
  /\ UNCHANGED <<buildVars, maskVars, libraryVars>>

\* the try block up to execFile: normalise to PNG, write input.png, read the size
Prepare(t) ==
  /\ mag[t].pc = "prepare"
  /\ SetMag(t, IF Decodable(mag[t].input)
               THEN [mag[t] EXCEPT !.pc = "exec", !.elapsed = 0]
               ELSE [mag[t] EXCEPT !.pc = "finally", !.pending = "throw"])
  /\ UNCHANGED <<input, direct, stack, cachedMagickCommand, tempDirs, nextDir, result, fellBack>>
  /\ UNCHANGED <<buildVars, maskVars, libraryVars>>

\* what the external process writes to output.png: every operation, in order
RECURSIVE Converted(_, _, _)
Converted(bytes, ops, alg) ==
  IF ops = <<>> THEN bytes
  ELSE Converted(Append(bytes, Effect(ops[1].type, alg, <<>>)), Tail(ops), alg)

\* execFile(command, args) succeeded: return fileSystem.readFile(outputPath)
ExecOk(t) ==
  /\ mag[t].pc = "exec"
  /\ SetMag(t, [mag[t] EXCEPT !.pc = "finally", !.pending = "read", !.outcome = "ok",
                              !.value = Converted(mag[t].input, mag[t].operations, "magick")])
  /\ UNCHANGED <<input, direct, stack, cachedMagickCommand, tempDirs, nextDir, result, fellBack>>
  /\ UNCHANGED <<buildVars, maskVars, libraryVars>>

\* execFile failed or timed out: return this.processOperationsFallback(input, operations)
ExecFail(t) ==
  /\ mag[t].pc = "exec"
  /\ \E cause \in {"failed", "timeout"} :
       /\ MayFail(mag[t], cause)
       /\ SetMag(t, [mag[t] EXCEPT !.pc = "finally", !.pending = "fallback", !.outcome = cause])
  /\ fellBack' = [fellBack EXCEPT ![t] = TRUE]
  /\ UNCHANGED <<input, direct, stack, cachedMagickCommand, tempDirs, nextDir, result>>
  /\ UNCHANGED <<buildVars, maskVars, libraryVars>>

\* finally { await fileSystem.rm(tempDirectory, { recursive: true, force: true }) }
RemovedAfterReadOnly(dirs, m) == IF m.pending = "read" THEN dirs \ {m.dir} ELSE dirs

Removed(dirs, m) == dirs \ {m.dir}

\* The promise of readFile is returned without await, so the removal in the
\* finally block starts while the read is still pending: the read has either
\* opened output.png before the removal unlinks it, or it finds no file.
Finally(t) ==
  /\ mag[t].pc = "finally"
  /\ tempDirs' = Removed(tempDirs, mag[t])
  /\ \/ /\ mag[t].pending = "throw"
        /\ SetMag(t, [mag[t] EXCEPT !.pc = "rejected", !.pending = "none"])
     \/ /\ mag[t].pending = "fallback"
        /\ SetMag(t, [mag[t] EXCEPT !.pc = "fallback", !.pending = "none"])
     \/ /\ mag[t].pending = "read"
        /\ \E first \in {"open", "unlink"} :
             SetMag(t, IF first = "open"
                       THEN [mag[t] EXCEPT !.pc = "resolved", !.pending = "none"]
                       ELSE [mag[t] EXCEPT !.pc = "rejected", !.pending = "none", !.value = <<>>])
  /\ UNCHANGED <<input, direct, stack, cachedMagickCommand, nextDir, result, fellBack>>
  /\ UNCHANGED <<buildVars, maskVars, libraryVars>>

\* processOperationsFallback(input, operations): one approximation after the other
FallbackOfLastOnly(bytes, ops) ==
  Converted(bytes, SubSeq(ops, Len(ops), Len(ops)), "approximation")

processOperationsFallback(bytes, ops) == Converted(bytes, ops, "approximation")

Fallback(t) ==
  /\ mag[t].pc = "fallback"
  /\ SetMag(t, IF Decodable(mag[t].input)
               THEN [mag[t] EXCEPT !.pc = "resolved",
                                   !.value = processOperationsFallback(mag[t].input, mag[t].operations)]
               ELSE [mag[t] EXCEPT !.pc = "rejected"])
  /\ UNCHANGED <<input, direct, stack, cachedMagickCommand, tempDirs, nextDir, result, fellBack>>
  /\ UNCHANGED <<buildVars, maskVars, libraryVars>>

\* await magickProcessor.processOperations(currentBytes, magickOperations) settles
MagickReturn(t) ==
  /\ Active(t)
  /\ Top(t).pc = "magick"
  /\ mag[t].pc \in {"resolved", "rejected"}
  /\ SetTop(t, IF mag[t].pc = "resolved"
               THEN [Top(t) EXCEPT !.currentBytes = mag[t].value, !.batch = <<>>, !.pc = "loop"]
               ELSE Failed(Top(t), "magick"))
  /\ SetMag(t, IdleMagick)
  /\ UNCHANGED <<input, direct, cachedMagickCommand, tempDirs, nextDir, result, fellBack>>
  /\ UNCHANGED <<buildVars, maskVars, libraryVars>>

\* ------------------------------------------------------------------------
\* Rendering: the assets and argument lists the calls are made with
\* ------------------------------------------------------------------------
OperationOf(type) == [EmptyOperation EXCEPT !.type = type]

OverlayOf(content) ==
  [EmptyOperation EXCEPT !.type = "overlay", !.content = content,
                         !.anchor = DEFAULT_OVERLAY_ANCHOR, !.mask = "clip"]

GroupOf(content) ==
  [EmptyOperation EXCEPT !.type = "group",
                         !.layers = <<[layer |-> content, anchor |-> DEFAULT_OVERLAY_ANCHOR,
                                       position |-> OwnPosition(DEFAULT_OVERLAY_POSITION)]>>,
                         !.mask = "alpha"]

\* group([...layers], { mask }): the layers in the order given
GroupOfLayers(contents, mask) ==
  [EmptyOperation EXCEPT !.type = "group",
                         !.layers = [k \in DOMAIN contents |->
                                       [layer |-> contents[k], anchor |-> DEFAULT_OVERLAY_ANCHOR,
                                        position |-> OwnPosition(DEFAULT_OVERLAY_POSITION)]],
                         !.mask = mask]

\* operations the builder records
RecordedOperations ==
  {OperationOf("flip"), OperationOf("swirl"), OperationOf("equalize"),
   [OperationOf("blur") EXCEPT !.points = <<Point(0, 0), Point(10, 0), Point(10, 10)>>,
                               !.mode = DEFAULT_BLUR_MODE, !.intensity = DEFAULT_BLUR_INTENSITY],
   OverlayOf("shape"), OverlayOf("a1"), OverlayOf("a2"), GroupOf("a2"),
   GroupOfLayers(<<"shape", "a2">>, "luminance")}

\* operations only a direct caller of processOperations can pass
DirectOperations ==
  {OperationOf("flip"), OperationOf("swirl"), OperationOf("equalize"), OperationOf("hologram")}

SeqsUpTo(S, n) == UNION {[1..k -> S] : k \in 0..n}

NestedOperationLists ==
  {<<>>, <<OperationOf("flip")>>, <<OperationOf("swirl")>>, <<OverlayOf("a1")>>}

Sources ==
  {SourceOf("Buffer", "img"), SourceOf("Buffer", "bad"), SourceOf("Uint8Array", "bad"),
   SourceOf("ArrayBuffer", "img")}

Init ==
  /\ \/ /\ operations \in {[a1 |-> l1, a2 |-> l2] :
                              l1 \in SeqsUpTo(RecordedOperations, MaxOps),
                              l2 \in NestedOperationLists}
        /\ direct = NoDirect
        /\ input \in {[a1 |-> s, a2 |-> SourceOf("Buffer", "img")] : s \in Sources}
     \/ /\ operations = [a \in Assets |-> <<>>]
        /\ direct \in [input : Sources, operations : SeqsUpTo(DirectOperations, MaxDirectOps) \ {<<>>}]
        /\ input = [a \in Assets |-> SourceOf("Buffer", "img")]
  /\ recorded = [a \in Assets |-> <<>>]
  /\ args = [position |-> [x |-> 30, y |-> 40],
             area |-> [x |-> Some(0), y |-> Some(0), width |-> Some(10), height |-> Some(10)],
             points |-> <<Point(10, 10), Point(0, 0), Point(10, 0)>>,
             groupOptions |-> [mask |-> "alpha"]]
  /\ lastCall = NoCall
  /\ ncalls = 0
  /\ returned = NoArray
  /\ LibraryIdle
  /\ stack = [t \in Tasks |-> <<>>]
  /\ mag = [t \in Tasks |-> IdleMagick]
  /\ cachedMagickCommand \in {"null", "magick"}
  /\ tempDirs = {}
  /\ nextDir = 1
  /\ result = [t \in Tasks |-> [status |-> "none"]]
  /\ fellBack = [t \in Tasks |-> FALSE]
  /\ MaskIdle

MainTask == "t1"

Next ==
  \/ \E a \in Assets : StartExport(MainTask, a)
  \/ StartDirect(MainTask)
  \/ SourceLoaded(MainTask)
  \/ Dispatch(MainTask)
  \/ SharpDone(MainTask)
  \/ OverlayContent(MainTask)
  \/ OverlayComposite(MainTask)
  \/ GroupCanvas(MainTask)
  \/ GroupContent(MainTask)
  \/ GroupComposite(MainTask)
  \/ GroupFlatten(MainTask)
  \/ NestedReturn(MainTask)
  \/ Settle(MainTask)
  \/ Tick(MainTask)
  \/ ProbeMagickOk(MainTask)
  \/ ProbeMagickFail(MainTask)
  \/ ProbeConvertOk(MainTask)
  \/ ProbeConvertFail(MainTask)
  \/ Mkdtemp(MainTask)
  \/ Prepare(MainTask)
  \/ ExecOk(MainTask)
  \/ ExecFail(MainTask)
  \/ Finally(MainTask)
  \/ Fallback(MainTask)
  \/ MagickReturn(MainTask)

Spec == Init /\ [][Next]_vars


\* ------------------------------------------------------------------------
\* Properties of the dispatcher and of the batch backend
\* ------------------------------------------------------------------------
Frames == {<<t, k>> : t \in Tasks, k \in 1..MaxDepth}
FramesInUse == {p \in Frames : p[2] <= Len(stack[p[1]])}
FrameAt(p) == stack[p[1]][p[2]]

\* the number of operations of the list that have completed
Completed(f) == IF f.pc = "magick" THEN f.index - 1 - Len(f.batch) ELSE f.index - 1

Handles(op) == op.type \in {"overlay", "group"} \/ SharpSupports(op) \/ MagickSupports(op)

\* C1: in every pending processOperations call the current bytes are the
\* source followed by the effect of operations 1..n of the list, once each and
\* in list order, n being the number of completed operations; what is in flight
\* is the next operation (or the next batch) and it was given those bytes; only
\* the innermost call of a task runs; a call that returns has n = length.
C1_SequentialInListOrder ==
  \A p \in FramesInUse :
    LET t == p[1]
        f == FrameAt(p)
        ops == OperationsOf(f)
        n == Completed(f)
    IN /\ p[2] < Len(stack[t]) => f.pc \in {"overlayWait", "groupWait"}
       /\ mag[t].pc # "idle" => Top(t).pc = "magick"
       /\ (f.dispatch /\ f.pc \notin {"source", "failed"}) =>
            /\ n <= Len(ops)
            /\ Len(f.currentBytes) = 1 + n
            /\ f.currentBytes[1] = toSourceBuffer(InputOf(f))[1]
            /\ \A i \in 1..n : f.currentBytes[i + 1].fx = ops[i].type
            /\ f.pc = "done" => n = Len(ops)
            /\ f.pc \notin {"done", "loop"} => n < Len(ops)
            /\ f.pc = "magick" =>
                 /\ f.batch # <<>>
                 /\ f.batch = SubSeq(ops, n + 1, f.index - 1)
                 /\ mag[t].pc # "idle"
                 /\ mag[t].input = f.currentBytes
                 /\ mag[t].operations = f.batch
                 /\ mag[t].pc = "resolved" =>
                      /\ Len(mag[t].value) = 1 + n + Len(f.batch)
                      /\ SubSeq(mag[t].value, 1, 1 + n) = f.currentBytes
                      /\ \A j \in 1..Len(f.batch) : mag[t].value[1 + n + j].fx = f.batch[j].type

C1_Witness ==
  /\ Len(stack[MainTask]) = 1
  /\ Top(MainTask).pc = "done"
  /\ Len(OperationsOf(Top(MainTask))) >= 2
  /\ \E i, j \in DOMAIN Top(MainTask).currentBytes :
       /\ i < j
       /\ Top(MainTask).currentBytes[i].alg = "sharp"
       /\ Top(MainTask).currentBytes[j].alg = "magick"

\* C2: the dispatcher never moves past an operation that no handler accepts:
\* meeting one, the call fails with an error naming its type, with the bytes
\* of the operations before it and nothing run after it.
C2_UnsupportedOperationFails ==
  \A p \in FramesInUse :
    LET f == FrameAt(p)
        ops == OperationsOf(f)
    IN (f.dispatch /\ f.pc # "source") =>
         /\ \A i \in 1..(f.index - 1) : i <= Len(ops) => Handles(ops[i])
         /\ f.pc \notin {"loop", "done", "failed", "magick"} => Handles(ops[f.index])
         /\ (f.pc = "failed" /\ f.error \notin {"decode", "magick"}) =>
              /\ f.index <= Len(ops)
              /\ ~Handles(ops[f.index])
              /\ f.error = ops[f.index].type
              /\ Len(f.currentBytes) = f.index
         /\ (f.index <= Len(ops) /\ ~Handles(ops[f.index])) => f.pc \in {"loop", "magick", "failed"}

C2_Witness ==
  /\ Active(MainTask)
  /\ Top(MainTask).pc = "failed"
  /\ Top(MainTask).error = "hologram"
  /\ Top(MainTask).index = 2
  /\ Len(OperationsOf(Top(MainTask))) = 3
  /\ Len(Top(MainTask).currentBytes) = 2

\* C3: an export never runs inside an export of the same asset: the second
\* entry is refused.
C3_CycleRejected ==
  \A t \in Tasks : \A i, j \in DOMAIN stack[t] :
    (i < j /\ stack[t][i].kind = "export" /\ stack[t][j].kind = "export"
           /\ stack[t][i].asset = stack[t][j].asset)
      => stack[t][j].pc = "failed"

\* C7: a call that resolved after the batch backend fell back hands its caller
\* something besides the bytes that says so.
C7_FallbackObservable ==
  \A t \in Tasks :
    (result[t].status = "resolved" /\ fellBack[t]) => DOMAIN result[t] # {"status", "bytes"}

\* C8: a temporary directory exists only while the batch call that made it is
\* between its mkdtemp and the end of its finally block; no settled call and no
\* idle backend leaves one behind.
C8_TempDirsRemoved ==
  /\ \A d \in tempDirs :
       \E t \in Tasks : mag[t].pc \in {"prepare", "exec", "finally"} /\ mag[t].dir = d
  /\ \A t \in Tasks : mag[t].pc \in {"resolved", "rejected", "fallback", "idle"} => mag[t].dir \notin tempDirs

C8_Witness ==
  /\ mag[MainTask].pc = "rejected"
  /\ mag[MainTask].dir # 0
  /\ mag[MainTask].outcome = "none"
  /\ ~Decodable(mag[MainTask].input)

\* C9: a pending external process never runs past its timeout, and a batch
\* call whose external process failed, timed out or was not found settles
\* either rejected or with the approximations of its operations, in order,
\* applied to the bytes the batch was given.
C9_TimeoutThenFallbackOrFailure ==
  \A t \in Tasks :
    LET m == mag[t]
    IN /\ m.pc \in {"probeMagick", "probeConvert"} => m.elapsed * TickMs <= PROBE_TIMEOUT_MS
       /\ m.pc = "exec" => m.elapsed * TickMs <= EXEC_TIMEOUT_MS
       /\ (m.pc = "resolved" /\ m.outcome # "ok") =>
            /\ m.outcome \in {"failed", "timeout", "unavailable"}
            /\ m.input = Top(t).currentBytes
            /\ m.operations = Top(t).batch
            /\ Len(m.value) = Len(m.input) + Len(m.operations)
            /\ SubSeq(m.value, 1, Len(m.input)) = m.input
            /\ \A j \in DOMAIN m.operations :
                 m.value[Len(m.input) + j] = Effect(m.operations[j].type, "approximation", <<>>)
       /\ (m.pc = "resolved" /\ m.outcome = "ok") =>
            \A j \in DOMAIN m.operations :
              m.value[Len(m.input) + j] = Effect(m.operations[j].type, "magick", <<>>)

C9_Witness ==
  /\ mag[MainTask].pc = "resolved"
  /\ mag[MainTask].outcome = "timeout"
  /\ Len(mag[MainTask].operations) >= 2
  /\ mag[MainTask].operations[1].type # mag[MainTask].operations[2].type


\* ------------------------------------------------------------------------
\* Mask engine: applyMask with a clip mask, on a strip of CanvasPixels pixels.
\* A buffer is the alpha of each pixel, 0 (transparent) or 1 (opaque).
\* ------------------------------------------------------------------------
Pixels == 1..CanvasPixels

\* applyStroke with position 'inside': the pixels of the path next to its outline
InsideStrokePixels(geometry) ==
  {p \in geometry : (p - 1) \notin geometry \/ (p + 1) \notin geometry}

\* drawBaseShape: the fill is drawn when there is a fill, the stroke when there
\* is a stroke; nothing else puts ink on the canvas of a shape without effects
drawBaseShape(shape) ==
  [p \in Pixels |->
     IF \/ shape.fillValue # "null" /\ p \in shape.geometry
        \/ shape.strokeValue # "null" /\ p \in InsideStrokePixels(shape.geometry)
     THEN 1 ELSE 0]

\* RenderService.shape.renderToBuffer(shape)
renderToBuffer(shape) == drawBaseShape(shape)

\* composite([{ input: mask, blend: 'dest-in' }]): alpha times the alpha of the mask
DestIn(content, mask) == [p \in Pixels |-> content[p] * mask[p]]

\* applyMask(contentBuffer, { type: 'clip', shape })
applyMask(content, shape) == DestIn(content, renderToBuffer(shape))

\* shape.fill(value)
ShapeFill ==
  /\ maskShape.fillValue = "null"
  /\ maskShape' = [maskShape EXCEPT !.fillValue = "color"]
  /\ UNCHANGED <<maskContent, maskRuns>>
  /\ UNCHANGED <<buildVars, renderVars, libraryVars>>

\* shape.stroke({ position: 'inside', ... })
ShapeStroke ==
  /\ maskShape.strokeValue = "null"
  /\ maskShape' = [maskShape EXCEPT !.strokeValue = "inside"]
  /\ UNCHANGED <<maskContent, maskRuns>>
  /\ UNCHANGED <<buildVars, renderVars, libraryVars>>

ApplyClipMask ==
  /\ maskRuns' = maskRuns \cup {[shape |-> maskShape, out |-> applyMask(maskContent, maskShape)]}
  /\ UNCHANGED <<maskContent, maskShape>>
  /\ UNCHANGED <<buildVars, renderVars, libraryVars>>

InitMask ==
  /\ maskContent \in [Pixels -> {0, 1}]
  /\ \E geometry \in SUBSET Pixels : geometry # {} /\ maskShape = NewShape(geometry)
  /\ maskRuns = {}
  /\ operations = [a \in Assets |-> <<>>]
  /\ recorded = [a \in Assets |-> <<>>]
  /\ args = [position |-> [x |-> 30, y |-> 40],
             area |-> [x |-> Some(0), y |-> Some(0), width |-> Some(10), height |-> Some(10)],
             points |-> <<Point(10, 10), Point(0, 0), Point(10, 0)>>,
             groupOptions |-> [mask |-> "alpha"]]
  /\ lastCall = NoCall
  /\ ncalls = 0
  /\ returned = NoArray
  /\ LibraryIdle
  /\ RenderIdle

NextMask == ShapeFill \/ ShapeStroke \/ ApplyClipMask

SpecMask == InitMask /\ [][NextMask]_vars

\* C10: a clip mask gives the same output for a shape whatever its style:
\* two applyMask calls on the same content with shapes of the same geometry
\* have the same output.
C10_ClipIgnoresStyle ==
  \A r1, r2 \in maskRuns : r1.shape.geometry = r2.shape.geometry => r1.out = r2.out

\* ------------------------------------------------------------------------
\* Properties of the group compositor
\* ------------------------------------------------------------------------
\* the content buffer of a layer starts from the shape or from the asset's source
LayerSource(layer) == IF layer.layer \in Assets THEN input[layer.layer].bytes ELSE "shape"

MaskCount(buffer) == Cardinality({j \in DOMAIN buffer : buffer[j].fx = "mask"})

\* the group canvas after the first k layers: the transparent canvas, then one
\* composite per layer, in list order, none of them masked
LayersComposited(buffer, operation, k) ==
  /\ Len(buffer) >= 1 + k
  /\ buffer[1] = Effect("source", "canvas", <<>>)
  /\ \A i \in 1..k :
       /\ buffer[1 + i].fx = "layer"
       /\ buffer[1 + i].content # <<>>
       /\ buffer[1 + i].content[1].alg = LayerSource(operation.layers[i])
       /\ MaskCount(buffer[1 + i].content) = 0

\* C11: every completed group operation put exactly one composite on the base;
\* what it composited is the canvas with every layer in list order, unmasked,
\* followed by the group mask, once, as the last step. While a group is being
\* processed the base is untouched and the canvas holds the layers done so far
\* and no mask.
C11_GroupMaskOnceOnFlattenedCanvas ==
  \A p \in FramesInUse :
    LET f == FrameAt(p)
        ops == OperationsOf(f)
    IN (f.dispatch /\ f.pc \notin {"source", "failed"}) =>
         /\ \A i \in 1..Completed(f) :
              ops[i].type = "group" =>
                LET g == f.currentBytes[i + 1].content
                    n == Len(ops[i].layers)
                IN /\ f.currentBytes[i + 1].fx = "group"
                   /\ Len(f.currentBytes) = 1 + Completed(f)
                   /\ LayersComposited(g, ops[i], n)
                   /\ IF ops[i].mask = "none"
                      THEN Len(g) = n + 1 /\ MaskCount(g) = 0
                      ELSE /\ Len(g) = n + 2
                           /\ g[n + 2] = Effect("mask", ops[i].mask, <<>>)
                           /\ MaskCount(g) = 1
         /\ f.pc \in {"groupContent", "groupWait", "groupComposite", "groupFlatten"} =>
              /\ Len(f.currentBytes) = f.index
              /\ Len(f.groupBuffer) = f.layer
              /\ LayersComposited(f.groupBuffer, ops[f.index], f.layer - 1)
              /\ MaskCount(f.groupBuffer) = 0
              /\ f.pc = "groupFlatten" <=> f.layer = Len(ops[f.index].layers) + 1

C11_Witness ==
  /\ Len(stack[MainTask]) = 1
  /\ Top(MainTask).pc = "done"
  /\ \E i \in DOMAIN OperationsOf(Top(MainTask)) :
       /\ OperationsOf(Top(MainTask))[i] = GroupOfLayers(<<"shape", "a2">>, "luminance")
       /\ Len(Top(MainTask).currentBytes[i + 1].content) = 4
       /\ Len(Top(MainTask).currentBytes[i + 1].content[3].content) >= 2

\* ------------------------------------------------------------------------
\* Placement resolver (src/asset/renderer/placement.ts)
\* ------------------------------------------------------------------------
\* JavaScript numbers: a finite number is a fraction num/den with den > 0; the
\* others have den = 0
Num(num, den) == [num |-> num, den |-> den]
NaN == Num(0, 0)
Infinity == Num(1, 0)
NegativeInfinity == Num(-1, 0)
NonFinite == {NaN, Infinity, NegativeInfinity}
IsFinite(v) == v.den # 0
Abs(n) == IF n < 0 THEN -n ELSE n

\* strings are sequences of characters; "Infinity" stands for that word
Chars == {" ", "-", ".", "2", "5", "%", "a", "Infinity"}
DigitChars == {"0", "1", "2", "3", "4", "5", "6", "7", "8", "9"}
DigitValue(c) ==
  CASE c = "0" -> 0 [] c = "1" -> 1 [] c = "2" -> 2 [] c = "3" -> 3 [] c = "4" -> 4
    [] c = "5" -> 5 [] c = "6" -> 6 [] c = "7" -> 7 [] c = "8" -> 8 [] c = "9" -> 9

Min(S) == CHOOSE n \in S : \A m \in S : n <= m
Max(S) == CHOOSE n \in S : \A m \in S : n >= m

\* String.prototype.trim
Trim(s) ==
  LET inked == {i \in DOMAIN s : s[i] # " "}
  IN IF inked = {} THEN <<>> ELSE SubSeq(s, Min(inked), Max(inked))

\* String.prototype.endsWith('%')
EndsWithPercent(s) == s # <<>> /\ s[Len(s)] = "%"

\* the number of digits of s from position i on
DigitRun(s, i) ==
  CHOOSE n \in 0..Len(s) :
    /\ \A j \in i..(i + n - 1) : j <= Len(s) /\ s[j] \in DigitChars
    /\ i + n > Len(s) \/ s[i + n] \notin DigitChars

RECURSIVE NumeralValue(_)
NumeralValue(digits) ==
  IF digits = <<>> THEN 0
  ELSE 10 * NumeralValue(SubSeq(digits, 1, Len(digits) - 1)) + DigitValue(digits[Len(digits)])

RECURSIVE Pow10(_)
Pow10(k) == IF k = 0 THEN 1 ELSE 10 * Pow10(k - 1)

\* Number.parseFloat: leading white space is skipped, then the longest prefix
\* that is a decimal literal is read; NaN when there is none
parseFloat(s) ==
  LET inked == {i \in DOMAIN s : s[i] # " "}
      body == IF inked = {} THEN <<>> ELSE SubSeq(s, Min(inked), Len(s))
      negative == body # <<>> /\ body[1] = "-"
      first == IF negative THEN 2 ELSE 1
      intLen == DigitRun(body, first)
      point == first + intLen
      fracLen == IF point <= Len(body) /\ body[point] = "." THEN DigitRun(body, point + 1) ELSE 0
      digits == SubSeq(body, first, point - 1) \o SubSeq(body, point + 1, point + fracLen)
  IN IF first <= Len(body) /\ body[first] = "Infinity"
     THEN (IF negative THEN NegativeInfinity ELSE Infinity)
     ELSE IF intLen + fracLen = 0 THEN NaN
     ELSE Num((IF negative THEN -1 ELSE 1) * NumeralValue(digits), Pow10(fracLen))

Returned(value) == [threw |-> FALSE, value |-> value]
Threw(error) == [threw |-> TRUE, error |-> error]

\* Math.round of a number known exactly: the nearest integer, a tie going up
MathFloor(v) == v.num \div v.den

MathRound(v) == (2 * v.num + v.den) \div (2 * v.den)

\* is v exactly half way between two integers
IsTie(v) == (2 * v.num + v.den) % (2 * v.den) = 0

\* a double holds v exactly when its denominator, in lowest terms, is a power of two
IsDyadic(v) == \E k \in 0..10 : (v.num * (2 ^ k)) % v.den = 0

\* toRounded(value)
toRounded(v) == IF ~IsFinite(v) THEN Threw("finite") ELSE Returned(MathRound(v))

\* (percentage / 100) * dimension, exactly
PercentOf(percentage, dimension) ==
  IF IsFinite(percentage)
  THEN Num(percentage.num * dimension.num, percentage.den * 100 * dimension.den)
  ELSE IF dimension.num = 0 THEN NaN ELSE percentage

\* toRounded((percentage / 100) * dimension): the division and the product are
\* each rounded to a double, so a product that is exactly half way between two
\* integers can come out just below the half (29% of 50 is 14.499999999999998)
\* or on it; every other product rounds as the exact one does
RoundedPercentOf(percentage, dimension) ==
  LET product == PercentOf(percentage, dimension)
  IN IF ~IsFinite(product) THEN {Threw("finite")}
     ELSE IF IsTie(product) /\ ~IsDyadic(Num(percentage.num, percentage.den * 100))
     THEN {Returned(MathRound(product)), Returned(MathRound(product) - 1)}
     ELSE {Returned(MathRound(product))}

\* resolvePlacementValue(value, dimension): the outcomes it can have
resolvePlacementValue(value, dimension) ==
  IF ~IsFinite(dimension) \/ dimension.num < 0 THEN {Threw("dimension")}
  ELSE IF value.type = "number" THEN {toRounded(value.number)}
  ELSE LET normalized == Trim(value.text)
           percentage == parseFloat(SubSeq(normalized, 1, Len(normalized) - 1))
       IN IF ~EndsWithPercent(normalized) THEN {Threw("suffix")}
          ELSE IF ~IsFinite(percentage) THEN {Threw("percentage")}
          ELSE RoundedPercentOf(percentage, dimension)

\* sums and products of finite numbers
Plus(a, b) == Num(a.num * b.den + b.num * a.den, a.den * b.den)
Times(a, b) == Num(a.num * b.num, a.den * b.den)

Anchors ==
  {"top-left", "top-center", "top-right", "center-left", "center", "center-right",
   "bottom-left", "bottom-center", "bottom-right"}

\* toAnchorOffset(anchor)
toAnchorOffset(anchor) ==
  CASE anchor = "top-left" -> [x |-> Num(0, 1), y |-> Num(0, 1)]
    [] anchor = "top-center" -> [x |-> Num(-1, 2), y |-> Num(0, 1)]
    [] anchor = "top-right" -> [x |-> Num(-1, 1), y |-> Num(0, 1)]
    [] anchor = "center-left" -> [x |-> Num(0, 1), y |-> Num(-1, 2)]
    [] anchor = "center" -> [x |-> Num(-1, 2), y |-> Num(-1, 2)]
    [] anchor = "center-right" -> [x |-> Num(-1, 1), y |-> Num(-1, 2)]
    [] anchor = "bottom-left" -> [x |-> Num(0, 1), y |-> Num(-1, 1)]
    [] anchor = "bottom-center" -> [x |-> Num(-1, 2), y |-> Num(-1, 1)]
    [] anchor = "bottom-right" -> [x |-> Num(-1, 1), y |-> Num(-1, 1)]
    [] OTHER -> [x |-> Num(0, 1), y |-> Num(0, 1)]

\* toCompositeOffset(anchor, contentW, contentH, x, y)
toCompositeOffsetClamped(anchor, contentW, contentH, x, y) ==
  LET offset == toAnchorOffset(anchor)
      left == toRounded(Plus(x, Times(contentW, offset.x)))
      top == toRounded(Plus(y, Times(contentH, offset.y)))
  IN Returned([left |-> Max({0, left.value}), top |-> Max({0, top.value})])

toCompositeOffset(anchor, contentW, contentH, x, y) ==
  LET offset == toAnchorOffset(anchor)
      left == toRounded(Plus(x, Times(contentW, offset.x)))
      top == toRounded(Plus(y, Times(contentH, offset.y)))
  IN IF left.threw THEN left
     ELSE IF top.threw THEN top
     ELSE Returned([left |-> left.value, top |-> top.value])

\* the arguments of the calls made to the resolver
MaxLen == 4
MaxSize == 3
MaxShift == 2
Coordinates == {Num(-3, 1), Num(5, 2), Num(7, 1)}
Texts == UNION {[1..n -> Chars] : n \in 0..MaxLen}
NumberValue(v) == [type |-> "number", number |-> v]
TextValue(text) == [type |-> "string", text |-> text]
PlacementNumbers ==
  {Num(-5, 2), Num(-1, 2), Num(0, 1), Num(3, 1), Num(12, 5), Num(13, 5), Num(7, 2)} \cup NonFinite
PlacementDimensions == {Num(-1, 1), Num(0, 1), Num(10, 1), Num(50, 1), NaN, Infinity}
Pending == [pending |-> TRUE]

BuildIdle ==
  /\ operations = [a \in Assets |-> <<>>]
  /\ recorded = [a \in Assets |-> <<>>]
  /\ args = [position |-> [x |-> 30, y |-> 40],
             area |-> [x |-> Some(0), y |-> Some(0), width |-> Some(10), height |-> Some(10)],
             points |-> <<Point(10, 10), Point(0, 0), Point(10, 0)>>,
             groupOptions |-> [mask |-> "alpha"]]
  /\ lastCall = NoCall
  /\ ncalls = 0
  /\ returned = NoArray

FontIdle ==
  /\ registry = [family \in Families |-> <<>>]
  /\ fontLoads = <<>>
  /\ loadOrder = [family \in Families |-> <<>>]

InitPlacement ==
  /\ \/ call \in [fn : {"resolvePlacementValue"},
                  value : {NumberValue(v) : v \in PlacementNumbers} \cup {TextValue(text) : text \in Texts},
                  dimension : PlacementDimensions,
                  out : {Pending}]
     \/ call \in [fn : {"toCompositeOffset"},
                  anchor : Anchors,
                  contentW : 0..MaxSize, contentH : 0..MaxSize,
                  x : Coordinates, y : Coordinates,
                  dx : (-MaxShift)..MaxShift, dy : (-MaxShift)..MaxShift,
                  out : {Pending}, shifted : {Pending}]
  /\ FontIdle
  /\ BuildIdle
  /\ RenderIdle
  /\ MaskIdle

ResolvePlacementValue ==
  /\ call.fn = "resolvePlacementValue"
  /\ call.out = Pending
  /\ \E outcome \in resolvePlacementValue(call.value, call.dimension) :
       call' = [call EXCEPT !.out = outcome]
  /\ UNCHANGED <<registry, fontLoads, loadOrder>>
  /\ UNCHANGED <<buildVars, renderVars, maskVars>>

\* toCompositeOffset at (x, y) and at (x + dx, y + dy)
ToCompositeOffset ==
  /\ call.fn = "toCompositeOffset"
  /\ call.out = Pending
  /\ call' = [call EXCEPT
       !.out = toCompositeOffset(call.anchor, Num(call.contentW, 1), Num(call.contentH, 1),
                                 call.x, call.y),
       !.shifted = toCompositeOffset(call.anchor, Num(call.contentW, 1), Num(call.contentH, 1),
                                     Plus(call.x, Num(call.dx, 1)), Plus(call.y, Num(call.dy, 1)))]
  /\ UNCHANGED <<registry, fontLoads, loadOrder>>
  /\ UNCHANGED <<buildVars, renderVars, maskVars>>

NextPlacement == ResolvePlacementValue \/ ToCompositeOffset

SpecPlacement == InitPlacement /\ [][NextPlacement]_vars

\* the decimal numeral of n with k digits after the point
RECURSIVE ToDigits(_)
ToDigits(n) ==
  IF n < 10 THEN <<CHOOSE c \in DigitChars : DigitValue(c) = n>>
  ELSE ToDigits(n \div 10) \o ToDigits(n % 10)

RECURSIVE ZeroPadded(_, _)
ZeroPadded(digits, length) ==
  IF Len(digits) >= length THEN digits ELSE ZeroPadded(<<"0">> \o digits, length)

Decimal(n, k) ==
  LET digits == ZeroPadded(ToDigits(n), k + 1)
  IN IF k = 0 THEN digits
     ELSE SubSeq(digits, 1, Len(digits) - k) \o <<".">> \o SubSeq(digits, Len(digits) - k + 1, Len(digits))

\* the valid percentage strings "p%" that can be written with Chars, with p
Percentages ==
  {r \in {[text |-> (IF sign < 0 THEN <<"-">> ELSE <<>>) \o Decimal(n, k) \o <<"%">>,
           p |-> Num(sign * n, Pow10(k))] : sign \in {-1, 1}, n \in 0..999, k \in 0..2} :
     /\ Len(r.text) <= MaxLen + 1
     /\ \A i \in DOMAIN r.text : r.text[i] \in Chars}

\* r is an integer nearest to v
IsNearest(r, v) == 2 * Abs(r * v.den - v.num) <= v.den

ValidDimension(d) == IsFinite(d) /\ d.num >= 0

\* C12 as stated: with a valid dimension, a valid percentage string "p%"
\* gives an integer nearest to p/100 * d and a finite number gives an integer
\* nearest to it; a string that does not end in "%", a percentage or a number
\* that is not finite, and a negative or non-finite dimension give an error.
C12_ResolveAsStated ==
  (call.fn = "resolvePlacementValue" /\ call.out # Pending) =>
    /\ \A r \in Percentages :
         (call.value = TextValue(r.text) /\ ValidDimension(call.dimension)) =>
           /\ ~call.out.threw
           /\ IsNearest(call.out.value, PercentOf(r.p, call.dimension))
    /\ (call.value.type = "number" /\ IsFinite(call.value.number) /\ ValidDimension(call.dimension)) =>
         /\ ~call.out.threw
         /\ IsNearest(call.out.value, call.value.number)
    /\ (call.value.type = "string" /\ ~EndsWithPercent(call.value.text)) => call.out.threw
    /\ (call.value.type = "string" /\ EndsWithPercent(call.value.text)
          /\ ~IsFinite(parseFloat(SubSeq(call.value.text, 1, Len(call.value.text) - 1)))) =>
         call.out.threw
    /\ (call.value.type = "number" /\ ~IsFinite(call.value.number)) => call.out.threw
    /\ ~ValidDimension(call.dimension) => call.out.threw

\* C12: with a valid dimension, a valid percentage string "p%" gives an integer
\* nearest to p/100 * d and a finite number gives an integer nearest to it; a
\* string that, once trimmed of white space, does not end in "%", a percentage
\* or a number that is not finite, and a negative or non-finite dimension give
\* an error and no number.
C12_ResolveTrimmed ==
  (call.fn = "resolvePlacementValue" /\ call.out # Pending) =>
    /\ \A r \in Percentages :
         (call.value = TextValue(r.text) /\ ValidDimension(call.dimension)) =>
           /\ ~call.out.threw
           /\ IsNearest(call.out.value, PercentOf(r.p, call.dimension))
    /\ (call.value.type = "number" /\ IsFinite(call.value.number) /\ ValidDimension(call.dimension)) =>
         /\ ~call.out.threw
         /\ IsNearest(call.out.value, call.value.number)
    /\ (call.value.type = "string" /\ ~EndsWithPercent(Trim(call.value.text))) => call.out.threw
    /\ (call.value.type = "string" /\ EndsWithPercent(Trim(call.value.text))
          /\ LET text == Trim(call.value.text)
             IN ~IsFinite(parseFloat(SubSeq(text, 1, Len(text) - 1)))) =>
         call.out.threw
    /\ (call.value.type = "number" /\ ~IsFinite(call.value.number)) => call.out.threw
    /\ ~ValidDimension(call.dimension) => call.out.threw

\* 5.5% of 50 is 2.75 and resolves to 3
C12_Witness ==
  /\ call.fn = "resolvePlacementValue"
  /\ call.value = TextValue(<<"5", ".", "5", "%">>)
  /\ call.dimension = Num(50, 1)
  /\ call.out = Returned(3)

\* C13: for every anchor, content size and position, toCompositeOffset at the
\* position shifted by (dx, dy) is toCompositeOffset at the position, shifted
\* by (dx, dy).
C13_OffsetCommutesWithTranslation ==
  (call.fn = "toCompositeOffset" /\ call.out # Pending) =>
    /\ ~call.out.threw
    /\ ~call.shifted.threw
    /\ call.shifted.value.left = call.out.value.left + call.dx
    /\ call.shifted.value.top = call.out.value.top + call.dy

\* a centred 3 x 3 content at (5/2, -3), moved by (-2, 2): from (1, -4) to (-1, -2)
C13_Witness ==
  /\ call.fn = "toCompositeOffset"
  /\ call.anchor = "center"
  /\ call.contentW = 3 /\ call.contentH = 3
  /\ call.x = Num(5, 2) /\ call.y = Num(-3, 1)
  /\ call.dx = -2 /\ call.dy = 2
  /\ call.out = Returned([left |-> 1, top |-> -4])
  /\ call.shifted = Returned([left |-> -1, top |-> -2])

\* ------------------------------------------------------------------------
\* Asset.blur: the contour it records for a list and for a permutation of it
\* ------------------------------------------------------------------------
MaxPoints == 4
PercentPoint(x, y) == [x |-> Some(Pct(x)), y |-> Some(Pct(y))]
ContourPoints ==
  {Point(0, 0), Point(2, 0), Point(2, 2), Point(0, 2), PercentPoint(1, 2)}
Orders(n) == {f \in [1..n -> 1..n] : \A i, j \in 1..n : i # j => f[i] # f[j]}
Permuted(points, order) == [k \in DOMAIN points |-> points[order[k]]]

InitBlur ==
  /\ \E n \in 3..MaxPoints :
       call \in [fn : {"blur"}, points : [1..n -> ContourPoints], order : Orders(n),
                 out : {Pending}, permuted : {Pending}]
  /\ FontIdle
  /\ BuildIdle
  /\ RenderIdle
  /\ MaskIdle

\* asset.blur(points) and asset.blur(permuted points): the points pushed
BlurBoth ==
  /\ call.fn = "blur"
  /\ call.out = Pending
  /\ BlurAccepts(call.points, DEFAULT_BLUR_INTENSITY)
  /\ call' = [call EXCEPT !.out = toOrderedBlurPoints(call.points),
                          !.permuted = toOrderedBlurPoints(Permuted(call.points, call.order))]
  /\ UNCHANGED <<registry, fontLoads, loadOrder>>
  /\ UNCHANGED <<buildVars, renderVars, maskVars>>

NextBlur == BlurBoth

SpecBlur == InitBlur /\ [][NextBlur]_vars

\* C14: blur records the same point sequence for a list of three or more
\* points and for every permutation of that list.
C14_ContourIndependentOfInputOrder ==
  (call.fn = "blur" /\ call.out # Pending) => call.permuted = call.out

\* ------------------------------------------------------------------------
\* Gradients (src/color/gradient-color.ts)
\* ------------------------------------------------------------------------
Less(a, b) == a.num * b.den < b.num * a.den

\* getValidatedColors(colors)
getValidatedColors(colors) ==
  IF Len(colors) < 2 THEN Threw("colors") ELSE Returned(colors)

\* the stops given pass the loop of getValidatedStops
StopsInRange(stops) ==
  \A index \in DOMAIN stops :
    IsFinite(stops[index]) /\ ~Less(stops[index], Num(0, 1)) /\ ~Less(Num(1, 1), stops[index])

StopsAscending(stops) ==
  \A index \in DOMAIN stops : index > 1 => ~Less(stops[index], stops[index - 1])

\* getValidatedStops(stops, count)
getValidatedStopsUnsorted(stops, count) ==
  IF ~IsDefined(stops)
  THEN Returned(IF count = 2 THEN <<Num(0, 1), Num(1, 1)>>
                ELSE [index \in 1..count |-> Num(index - 1, count - 1)])
  ELSE IF Len(stops[1]) # count THEN Threw("length")
  ELSE IF ~StopsInRange(stops[1]) THEN Threw("range")
  ELSE Returned(stops[1])

getValidatedStops(stops, count) ==
  IF ~IsDefined(stops)
  THEN Returned(IF count = 2 THEN <<Num(0, 1), Num(1, 1)>>
                ELSE [index \in 1..count |-> Num(index - 1, count - 1)])
  ELSE IF Len(stops[1]) # count THEN Threw("length")
  ELSE IF \E index \in DOMAIN stops[1] :
            /\ StopsInRange(SubSeq(stops[1], 1, index - 1))
            /\ StopsAscending(SubSeq(stops[1], 1, index - 1))
            /\ ~StopsInRange(SubSeq(stops[1], index, index))
       THEN Threw("range")
  ELSE IF ~StopsAscending(stops[1]) THEN Threw("order")
  ELSE Returned(stops[1])

\* GradientColor.linear(config) and GradientColor.radial(config)
GradientOf(type, config) ==
  LET colors == getValidatedColors(config.colors)
      stops == IF colors.threw THEN colors ELSE getValidatedStops(config.stops, Len(colors.value))
  IN IF colors.threw THEN colors
     ELSE IF stops.threw THEN stops
     ELSE Returned([type |-> type, colors |-> colors.value, stops |-> stops.value])

MaxColors == 4
ColorValues == {"#000", "#fff"}
StopValues == {NaN, Num(0, 1), Num(1, 2), Num(1, 1), Num(3, 2)}

InitGradient ==
  /\ call \in [fn : {"linear", "radial"},
               colors : SeqsUpTo(ColorValues, MaxColors),
               stops : {None} \cup {Some(stops) : stops \in SeqsUpTo(StopValues, MaxColors)},
               out : {Pending}]
  /\ FontIdle
  /\ BuildIdle
  /\ RenderIdle
  /\ MaskIdle

Linear ==
  /\ call.fn = "linear"
  /\ call.out = Pending
  /\ call' = [call EXCEPT !.out = GradientOf("linear", [colors |-> call.colors, stops |-> call.stops])]
  /\ UNCHANGED <<registry, fontLoads, loadOrder>>
  /\ UNCHANGED <<buildVars, renderVars, maskVars>>

Radial ==
  /\ call.fn = "radial"
  /\ call.out = Pending
  /\ call' = [call EXCEPT !.out = GradientOf("radial", [colors |-> call.colors, stops |-> call.stops])]
  /\ UNCHANGED <<registry, fontLoads, loadOrder>>
  /\ UNCHANGED <<buildVars, renderVars, maskVars>>

NextGradient == Linear \/ Radial

SpecGradient == InitGradient /\ [][NextGradient]_vars

\* C15: a gradient that was built has at least two colors and as many stops as
\* colors, every stop within [0, 1] and none below the stop before it; built
\* without stops, n colors have the stops (i - 1)/(n - 1) for i = 1..n; a
\* stops list of another length than the colors never builds a gradient.
C15_GradientStopsValid ==
  (call.fn \in {"linear", "radial"} /\ call.out # Pending) =>
    /\ ~call.out.threw =>
         LET data == call.out.value
             n == Len(data.colors)
         IN /\ n >= 2
            /\ data.colors = call.colors
            /\ Len(data.stops) = n
            /\ \A i \in 1..n :
                 /\ IsFinite(data.stops[i])
                 /\ 0 <= data.stops[i].num /\ data.stops[i].num <= data.stops[i].den
                 /\ i > 1 => data.stops[i - 1].num * data.stops[i].den
                               <= data.stops[i].num * data.stops[i - 1].den
            /\ ~IsDefined(call.stops) =>
                 \A i \in 1..n : data.stops[i].num * (n - 1) = (i - 1) * data.stops[i].den
            /\ IsDefined(call.stops) => data.stops = call.stops[1]
    /\ (IsDefined(call.stops) /\ Len(call.stops[1]) # Len(call.colors)) => call.out.threw
    /\ Len(call.colors) < 2 => call.out.threw

\* three colors and no stops: the stops are 0, 1/2, 1
C15_Witness ==
  /\ call.fn = "linear"
  /\ Len(call.colors) = 3
  /\ call.stops = None
  /\ call.out # Pending
  /\ ~call.out.threw
  /\ call.out.value.stops = <<Num(0, 2), Num(1, 2), Num(2, 2)>>

\* ------------------------------------------------------------------------
\* Font registry (src/text/font.ts)
\* ------------------------------------------------------------------------
MaxLoads == 3

\* strings are sequences of characters; a name stands for its characters
FamilyTexts == {<<"Cardo">>, <<" ", "Inter">>, <<" ">>}
SourceTexts == {<<"a.ttf">>, <<" ", "a.ttf">>, <<"https://c">>, <<" ">>}

\* /^https?:\/\//i.test(source)
IsRemote(source) == source # <<>> /\ source[1] = "https://c"

\* Array.prototype.includes
Includes(sources, source) == \E i \in DOMAIN sources : sources[i] = source

Settled(i) == fontLoads[i].pc # "await"

\* Font.load(family, source) up to its await: both names are validated, then
\* registerFontSource starts; history: the source joins the order of first calls
LoadCall(family, source) ==
  /\ Len(fontLoads) < MaxLoads
  /\ LET normalizedFamily == Trim(family)
         normalizedSource == Trim(source)
     IN IF Len(normalizedFamily) = 0 \/ Len(normalizedSource) = 0
        THEN /\ fontLoads' = Append(fontLoads, [family |-> normalizedFamily, source |-> normalizedSource,
                                                pc |-> "threw", settledAt |-> 0])
             /\ UNCHANGED loadOrder
        ELSE /\ fontLoads' = Append(fontLoads, [family |-> normalizedFamily, source |-> normalizedSource,
                                                pc |-> "await", settledAt |-> 0])
             /\ loadOrder' = [loadOrder EXCEPT ![normalizedFamily[1]] =
                                IF Includes(@, normalizedSource) THEN @ ELSE Append(@, normalizedSource)]
  /\ UNCHANGED <<call, registry>>
  /\ UNCHANGED <<buildVars, renderVars, maskVars>>

\* registerFontSource of a remote source returns at once, so its caller resumes
\* in a microtask, before any file system answer and after the remote loads
\* called before it; a local source waits for fileSystem.access
MayResume(i) ==
  /\ i \in DOMAIN fontLoads
  /\ fontLoads[i].pc = "await"
  /\ IF IsRemote(fontLoads[i].source)
     THEN \A j \in 1..(i - 1) : IsRemote(fontLoads[j].source) => Settled(j)
     ELSE \A j \in DOMAIN fontLoads : IsRemote(fontLoads[j].source) => Settled(j)

\* Font.load after its await: the registry is read and updated in one turn
LoadResumePushingAlways(i) ==
  /\ MayResume(i)
  /\ registry' = [registry EXCEPT ![fontLoads[i].family[1]] = Append(@, fontLoads[i].source)]
  /\ fontLoads' = [fontLoads EXCEPT ![i].pc = "done",
                     ![i].settledAt = 1 + Cardinality({j \in DOMAIN fontLoads : fontLoads[j].pc = "done"})]
  /\ UNCHANGED <<call, loadOrder>>
  /\ UNCHANGED <<buildVars, renderVars, maskVars>>

LoadResume(i) ==
  /\ MayResume(i)
  /\ LET family == fontLoads[i].family[1]
         existing == registry[family]
     IN registry' = [registry EXCEPT ![family] =
                       IF existing = <<>> THEN <<fontLoads[i].source>>
                       ELSE IF ~Includes(existing, fontLoads[i].source)
                       THEN Append(existing, fontLoads[i].source)
                       ELSE existing]
  /\ fontLoads' = [fontLoads EXCEPT ![i].pc = "done",
                     ![i].settledAt = 1 + Cardinality({j \in DOMAIN fontLoads : fontLoads[j].pc = "done"})]
  /\ UNCHANGED <<call, loadOrder>>
  /\ UNCHANGED <<buildVars, renderVars, maskVars>>

InitFont ==
  /\ FontIdle
  /\ call = NoEvaluation
  /\ BuildIdle
  /\ RenderIdle
  /\ MaskIdle

NextFont ==
  \/ \E family \in FamilyTexts, source \in SourceTexts : LoadCall(family, source)
  \/ \E i \in 1..MaxLoads : LoadResume(i)

SpecFont == InitFont /\ [][NextFont]_vars

NoLoadInFlight == \A i \in DOMAIN fontLoads : Settled(i)

\* the loads of a source for a family that went through
LoadsOf(family, source) ==
  {i \in DOMAIN fontLoads :
     fontLoads[i].pc = "done" /\ fontLoads[i].family = <<family>> /\ fontLoads[i].source = source}

FirstSettled(family, source) == Min({fontLoads[i].settledAt : i \in LoadsOf(family, source)})

IsPrefix(a, b) == Len(a) <= Len(b) /\ SubSeq(b, 1, Len(a)) = a

\* C16 as stated: once no load is in flight, the registration of every family
\* is the list of the distinct trimmed sources loaded for it, each once, in the
\* order of the first load call of each; and no step removes a source.
C16_SourcesInFirstCallOrder ==
  /\ [](NoLoadInFlight => \A family \in Families : registry[family] = loadOrder[family])
  /\ [][\A family \in Families : IsPrefix(registry[family], registry'[family])]_vars

\* C16: a registration never lists a source twice and only grows at its end;
\* once no load is in flight it lists exactly the distinct trimmed sources
\* loaded for the family, in the order in which the first load of each
\* completed.
C16_SourcesOnceInCompletionOrder ==
  /\ [](\A family \in Families :
          LET sources == registry[family]
          IN /\ \A i, j \in DOMAIN sources : i # j => sources[i] # sources[j]
             /\ \A i \in DOMAIN sources : Trim(sources[i]) = sources[i] /\ LoadsOf(family, sources[i]) # {}
             /\ \A i, j \in DOMAIN sources :
                  i < j => FirstSettled(family, sources[i]) < FirstSettled(family, sources[j])
             /\ NoLoadInFlight =>
                  {sources[i] : i \in DOMAIN sources} = {loadOrder[family][i] : i \in DOMAIN loadOrder[family]})
  /\ [][\A family \in Families : IsPrefix(registry[family], registry'[family])]_vars

\* a local source and a remote one loaded at the same time, then the local one again
C16_Witness ==
  /\ Len(fontLoads) = 3
  /\ NoLoadInFlight
  /\ fontLoads[1].source = <<"a.ttf">> /\ fontLoads[2].source = <<"https://c">>
  /\ fontLoads[3].source = <<"a.ttf">>
  /\ \A i \in 1..3 : fontLoads[i].family = <<"Cardo">>
  /\ fontLoads[2].settledAt < fontLoads[1].settledAt
  /\ registry["Cardo"] = <<<<"https://c">>, <<"a.ttf">>>>

\* ------------------------------------------------------------------------
\* Export of an asset without operations
\* ------------------------------------------------------------------------
\* C17: an export of an asset that has no recorded operation never enters a
\* backend: it only waits for its source and is done, with the bytes of the
\* input whatever the kind of in-memory source, no batch call and no temporary
\* directory; settling, the export resolves with exactly these bytes.
C17_ExportWithoutOperationsReturnsInput ==
  /\ [](\A p \in FramesInUse :
          LET f == FrameAt(p)
          IN (f.kind = "export" /\ operations[f.asset] = <<>>) =>
               /\ f.pc \in {"source", "done"}
               /\ f.pc = "done" => f.currentBytes = BufferFrom(input[f.asset].bytes)
               /\ p[2] = Len(stack[p[1]]) => mag[p[1]] = IdleMagick /\ tempDirs = {})
  /\ [][\A t \in Tasks :
          (Len(stack[t]) = 1 /\ stack'[t] = <<>> /\ Top(t).kind = "export"
             /\ operations[Top(t).asset] = <<>>) =>
            /\ result'[t] = Resolved(BufferFrom(input[Top(t).asset].bytes))
            /\ ~fellBack'[t]]_vars

\* bytes that are no image, held in a Uint8Array, come back as they are
C17_Witness ==
  /\ operations["a1"] = <<>>
  /\ input["a1"] = SourceOf("Uint8Array", "bad")
  /\ result[MainTask] = Resolved(BufferFrom("bad"))

\* ------------------------------------------------------------------------
\* Canvas of a shape (render/shape.ts)
\* ------------------------------------------------------------------------
MIN_SHAPE_SIZE == 1

NumOf(n) == Num(n, 1)
Minus(a, b) == Num(a.num * b.den - b.num * a.den, a.den * b.den)
MathAbs(v) == Num(Abs(v.num), v.den)
\* Math.ceil of a finite number
MathCeil(v) == -((-v.num) \div v.den)
\* Math.max of finite numbers
MathMax(S) == CHOOSE a \in S : \A b \in S : ~Less(a, b)

NoStroke == [none |-> TRUE]
StrokeOf(width, position) == [width |-> width, position |-> position]

toNormalizedPathMetricsUnclamped(bounds) ==
  LET safeLeft == IF IsFinite(bounds.left) THEN bounds.left ELSE NumOf(0)
      safeTop == IF IsFinite(bounds.top) THEN bounds.top ELSE NumOf(0)
      safeRight == IF IsFinite(bounds.right) THEN bounds.right ELSE NumOf(MIN_SHAPE_SIZE)
      safeBottom == IF IsFinite(bounds.bottom) THEN bounds.bottom ELSE NumOf(MIN_SHAPE_SIZE)
  IN [left |-> NumOf(0),
      top |-> NumOf(0),
      right |-> Minus(safeRight, safeLeft),
      bottom |-> Minus(safeBottom, safeTop)]

\* the bounds of a path are cleaned of non-finite values and moved to the origin
toNormalizedPathMetrics(bounds) ==
  LET safeLeft == IF IsFinite(bounds.left) THEN bounds.left ELSE NumOf(0)
      safeTop == IF IsFinite(bounds.top) THEN bounds.top ELSE NumOf(0)
      safeRight == IF IsFinite(bounds.right) THEN bounds.right ELSE NumOf(MIN_SHAPE_SIZE)
      safeBottom == IF IsFinite(bounds.bottom) THEN bounds.bottom ELSE NumOf(MIN_SHAPE_SIZE)
  IN [left |-> NumOf(0),
      top |-> NumOf(0),
      right |-> MathMax({NumOf(MIN_SHAPE_SIZE), Minus(safeRight, safeLeft)}),
      bottom |-> MathMax({NumOf(MIN_SHAPE_SIZE), Minus(safeBottom, safeTop)})]

toStrokePaddingSingle(stroke) ==
  IF stroke = NoStroke THEN 0 ELSE Max({0, MathCeil(stroke.width)})

toStrokePadding(stroke) ==
  IF stroke = NoStroke
    THEN 0
    ELSE LET strokeSize == IF stroke.position = "outside"
                             THEN Times(stroke.width, NumOf(2))
                             ELSE stroke.width
         IN Max({0, MathCeil(strokeSize)})

\* what one effect of the list offers to the running maximum
EffectPaddings(effect) ==
  CASE effect.type \in {"drop-shadow", "inner-shadow"} ->
         LET spread == IF effect.config.spread = None THEN NumOf(0) ELSE effect.config.spread[1]
         IN {Plus(Plus(MathAbs(effect.config.offset.x), effect.config.blur), MathAbs(spread)),
             Plus(Plus(MathAbs(effect.config.offset.y), effect.config.blur), MathAbs(spread))}
    [] effect.type \in {"layer-blur", "background-blur"} ->
         {Times(effect.config.radius, NumOf(2))}
    [] effect.type = "glass" -> {Times(effect.config.blur, NumOf(2))}
    [] OTHER -> {}

toEffectsPadding(effects) ==
  MathCeil(MathMax({NumOf(0)} \cup UNION {EffectPaddings(effects[i]) : i \in DOMAIN effects}))

buildMetrics(shape) ==
  LET pathMetrics == toNormalizedPathMetrics(shape.bounds)
      padding == Max({2, toStrokePadding(shape.strokeValue), toEffectsPadding(shape.effects)})
      width == Max({MIN_SHAPE_SIZE, MathCeil(Minus(pathMetrics.right, pathMetrics.left))})
      height == Max({MIN_SHAPE_SIZE, MathCeil(Minus(pathMetrics.bottom, pathMetrics.top))})
  IN [pathMetrics |-> pathMetrics,
      padding |-> padding,
      canvasWidth |-> width + padding * 2,
      canvasHeight |-> height + padding * 2,
      translateX |-> padding,
      translateY |-> padding]

MaxEffects == 2

ShadowEffect(type, x, y, blur, spread) ==
  [type |-> type, config |-> [offset |-> [x |-> x, y |-> y], blur |-> blur, spread |-> spread]]
BlurEffect(type, radius) == [type |-> type, config |-> [radius |-> radius]]
GlassEffect(blur) == [type |-> "glass", config |-> [blur |-> blur]]
NoiseEffect == [type |-> "noise", config |-> [size |-> NumOf(1)]]

EffectValues ==
  {ShadowEffect("drop-shadow", NumOf(-3), NumOf(1), Num(1, 2), None),
   ShadowEffect("inner-shadow", NumOf(0), NumOf(4), NumOf(1), Some(NumOf(-2))),
   BlurEffect("layer-blur", Num(3, 2)),
   BlurEffect("background-blur", NumOf(0)),
   GlassEffect(NumOf(11)),
   NoiseEffect}

StrokeWidths == {NumOf(-1), Num(5, 2), NumOf(10)}
StrokeValues ==
  {NoStroke} \cup
  {StrokeOf(width, position) :
     width \in StrokeWidths, position \in {"inside", "outside", "center", "undefined"}}

BoundsOf(left, top, right, bottom) == [left |-> left, top |-> top, right |-> right, bottom |-> bottom]
PathBounds ==
  {BoundsOf(NumOf(0), NumOf(0), NumOf(3), NumOf(2)),
   BoundsOf(NumOf(1), NumOf(-1), Num(7, 2), Num(1, 4)),
   BoundsOf(NumOf(0), NumOf(0), Num(1, 2), NumOf(300)),
   BoundsOf(NumOf(2), NumOf(5), NumOf(9), NumOf(5)),
   BoundsOf(NumOf(4), NumOf(1), NumOf(4), NumOf(8)),
   BoundsOf(NumOf(6), NumOf(6), NumOf(6), NumOf(6)),
   BoundsOf(NumOf(5), NumOf(0), Infinity, NumOf(0)),
   BoundsOf(Infinity, Infinity, NegativeInfinity, NegativeInfinity)}

InitShape ==
  /\ call \in [fn : {"buildMetrics"},
               bounds : PathBounds,
               strokeValue : StrokeValues,
               effects : SeqsUpTo(EffectValues, MaxEffects),
               out : {Pending}]
  /\ FontIdle
  /\ BuildIdle
  /\ RenderIdle
  /\ MaskIdle

BuildMetrics ==
  /\ call.fn = "buildMetrics"
  /\ call.out = Pending
  /\ call' = [call EXCEPT !.out = Returned(buildMetrics(call))]
  /\ UNCHANGED <<registry, fontLoads, loadOrder>>
  /\ UNCHANGED <<buildVars, renderVars, maskVars>>

NextShape == BuildMetrics

SpecShape == InitShape /\ [][NextShape]_vars

\* how far a stroke reaches: its width, twice when it lies outside the path
StrokeReach(stroke) ==
  IF stroke = NoStroke
    THEN {}
    ELSE {IF stroke.position = "outside" THEN Plus(stroke.width, stroke.width) ELSE stroke.width}

\* how far the effects reach: |offset| + blur + |spread| on each axis for a
\* shadow, twice the radius for a blur, twice the blur for glass
EffectsReach(effects) ==
  UNION {LET e == effects[i]
             c == e.config
         IN IF e.type \in {"drop-shadow", "inner-shadow"}
              THEN LET s == IF c.spread = None THEN NumOf(0) ELSE MathAbs(c.spread[1])
                   IN {Plus(MathAbs(c.offset.x), Plus(c.blur, s)),
                       Plus(MathAbs(c.offset.y), Plus(c.blur, s))}
              ELSE IF e.type \in {"layer-blur", "background-blur"}
                     THEN {Plus(c.radius, c.radius)}
                     ELSE IF e.type = "glass" THEN {Plus(c.blur, c.blur)} ELSE {}
         : i \in DOMAIN effects}

\* the least whole number that is no less than any number of S
LeastWholeCovering(n, S) ==
  /\ \A b \in S : ~Less(NumOf(n), b)
  /\ \E b \in S : Less(NumOf(n - 1), b)

\* the content box of a path: its extent on one axis, at least MIN_SHAPE_SIZE,
\* where a bound that is not finite counts as 0 (near side) or 1 (far side)
ContentExtent(near, far) ==
  LET lo == IF IsFinite(near) THEN near ELSE NumOf(0)
      hi == IF IsFinite(far) THEN far ELSE NumOf(1)
  IN {NumOf(1), Minus(hi, lo)}

\* C18: the padding of a shape's canvas is max(2, strokePadding, effectsPadding)
\* in whole pixels: the least whole number that is no less than 2, than the
\* stroke width (twice the width for an outside stroke) and than the reach of
\* any effect; a stroke of width 10 gives at least 20 outside and at least 10
\* otherwise; the canvas is the content box, in whole pixels, plus the padding
\* on both sides of each axis, the content drawn at (padding, padding).
C18_CanvasPadding ==
  (call.fn = "buildMetrics" /\ call.out # Pending) =>
    LET m == call.out.value
        stroke == call.strokeValue
    IN /\ ~call.out.threw
       /\ LeastWholeCovering(m.padding,
            {NumOf(2)} \cup StrokeReach(stroke) \cup EffectsReach(call.effects))
       /\ (stroke # NoStroke /\ stroke.width = NumOf(10)) =>
            m.padding >= (IF stroke.position = "outside" THEN 20 ELSE 10)
       /\ LeastWholeCovering(m.canvasWidth - 2 * m.padding,
            ContentExtent(call.bounds.left, call.bounds.right))
       /\ LeastWholeCovering(m.canvasHeight - 2 * m.padding,
            ContentExtent(call.bounds.top, call.bounds.bottom))
       /\ m.translateX = m.padding
       /\ m.translateY = m.padding

\* an outside stroke of width 10 on a 3 x 2 path: padding 20, canvas 43 x 42
C18_Witness ==
  /\ call.fn = "buildMetrics"
  /\ call.out # Pending
  /\ call.strokeValue = StrokeOf(NumOf(10), "outside")
  /\ call.bounds = BoundsOf(NumOf(0), NumOf(0), NumOf(3), NumOf(2))
  /\ call.effects = <<BlurEffect("layer-blur", Num(3, 2))>>
  /\ call.out.value.padding = 20
  /\ call.out.value.canvasWidth = 43
  /\ call.out.value.canvasHeight = 42

\* ------------------------------------------------------------------------
\* Text rendering (render/shape.ts, SubmoduleRenderServiceText)
\* ------------------------------------------------------------------------
DEFAULT_FONT == [family |-> "sans-serif", size |-> NumOf(16)]
DEFAULT_LINE_HEIGHT_MULTIPLIER == Num(6, 5)

Over(a, b) == Num(a.num * b.den, a.den * b.num)
LessEq(a, b) == ~Less(b, a)

\* context.measureText(value).width: the glyph advances of the one font in use
GlyphWidth(c) == CASE c = "m" -> 12 [] c = "M" -> 12 [] OTHER -> 4

RECURSIVE measureText(_)
measureText(value) ==
  IF value = <<>> THEN 0 ELSE GlyphWidth(Head(value)) + measureText(Tail(value))

getLineHeight(options) ==
  IF options.lineHeight = None
    THEN Times(DEFAULT_FONT.size, DEFAULT_LINE_HEIGHT_MULTIPLIER)
    ELSE IF LessEq(options.lineHeight[1], NumOf(3))
           THEN Times(DEFAULT_FONT.size, options.lineHeight[1])
           ELSE options.lineHeight[1]

IsSpace(c) == c = " "

\* value.split(/(\s+)/) without the empty pieces: the maximal stretches of
\* white space and of other characters, in order
RECURSIVE toSegmentsPreservingSpaces(_)
toSegmentsPreservingSpaces(value) ==
  IF value = <<>>
    THEN <<>>
    ELSE LET stops == {i \in 2..Len(value) : IsSpace(value[i]) # IsSpace(value[1])}
             n == IF stops = {} THEN Len(value) ELSE Min(stops) - 1
         IN <<SubSeq(value, 1, n)>> \o
            toSegmentsPreservingSpaces(SubSeq(value, n + 1, Len(value)))

measureTextWithSpacing(value, letterSpacingEm) ==
  LET baseWidth == measureText(value)
  IN IF Len(value) <= 1 \/ letterSpacingEm = 0
       THEN baseWidth
       ELSE baseWidth + measureText(<<"M">>) * letterSpacingEm * (Len(value) - 1)

MeasuredRun(value, width) == [value |-> value, width |-> width]
MeasuredLine(runs, width) == [runs |-> runs, width |-> width]

\* a width or height option that is given and not 0
Truthy(option) == option # None /\ option[1] # 0

\* one segment of measureLines' inner loop
WithSegment(measuredLines, segment, options) ==
  LET maxWidth == options.width
      currentLine == measuredLines[Len(measuredLines)]
      segmentWidth == measureTextWithSpacing(segment, options.letterSpacing)
      nextWidth == currentLine.width + segmentWidth
      shouldWrap == /\ Truthy(maxWidth)
                    /\ currentLine.width > 0
                    /\ nextWidth > maxWidth[1]
                    /\ \E i \in DOMAIN segment : ~IsSpace(segment[i])
  IN IF shouldWrap
       THEN Append(measuredLines, MeasuredLine(<<MeasuredRun(segment, segmentWidth)>>, segmentWidth))
       ELSE [measuredLines EXCEPT ![Len(measuredLines)] =
               MeasuredLine(Append(currentLine.runs, MeasuredRun(segment, segmentWidth)), nextWidth)]

RECURSIVE WithSegments(_, _, _)
WithSegments(measuredLines, segments, options) ==
  IF segments = <<>>
    THEN measuredLines
    ELSE WithSegments(WithSegment(measuredLines, Head(segments), options), Tail(segments), options)

RECURSIVE WithRuns(_, _, _)
WithRuns(measuredLines, runs, options) ==
  IF runs = <<>>
    THEN measuredLines
    ELSE WithRuns(WithSegments(measuredLines, toSegmentsPreservingSpaces(Head(runs)), options),
                  Tail(runs), options)

measureLines(text) == WithRuns(<<MeasuredLine(<<>>, 0)>>, text.content, text.options)

ellipsis == <<".", ".", ".">>
ellipsisWidth == measureText(ellipsis)

\* Math.max(1, Math.floor(options.maxHeight / lineHeight))
maxLines(options) ==
  Max({1, MathFloor(Over(NumOf(options.maxHeight[1]), getLineHeight(options)))})

\* the condition of the shrink loop, looking at one run only
MustShrinkLongRun(last, options) ==
  /\ last.runs # <<>>
  /\ Len(last.runs[Len(last.runs)].value) > 1
  /\ options.width # None
  /\ last.width + ellipsisWidth > options.width[1]

\* the condition of the shrink loop; without a width the box is unbounded
MustShrink(last, options) ==
  /\ last.runs # <<>>
  /\ options.width # None
  /\ last.width + ellipsisWidth > options.width[1]

\* one round of the shrink loop: a last run of one character goes, a longer
\* one loses its last character and is measured again
Shrunk(last) ==
  LET k == Len(last.runs)
      current == last.runs[k]
  IN IF Len(current.value) <= 1
       THEN MeasuredLine(SubSeq(last.runs, 1, k - 1), last.width - current.width)
       ELSE LET shortened == SubSeq(current.value, 1, Len(current.value) - 1)
                width == measureText(shortened)
            IN MeasuredLine([last.runs EXCEPT ![k] = MeasuredRun(shortened, width)],
                            last.width - current.width + width)

toAlignedStartX(align, lineWidth, contentWidth) ==
  CASE align = "center" -> Over(NumOf(contentWidth - lineWidth), NumOf(2))
    [] align = "right" -> NumOf(contentWidth - lineWidth)
    [] OTHER -> NumOf(0)

\* the canvas and the place of every line on it
Layout(finalLines, options) ==
  LET lineHeight == getLineHeight(options)
      blockHeight == Times(NumOf(Len(finalLines)), lineHeight)
      contentWidth == Max({1, IF options.width # None
                                THEN options.width[1]
                                ELSE Max({finalLines[i].width : i \in DOMAIN finalLines} \cup {0})})
      contentHeight == Max({1, MathCeil(blockHeight)})
      drawHeight == IF Truthy(options.maxHeight)
                      THEN Min({contentHeight, options.maxHeight[1]})
                      ELSE contentHeight
      baseY == CASE options.verticalAlign = "middle" ->
                      MathMax({NumOf(0), Over(Minus(NumOf(drawHeight), blockHeight), NumOf(2))})
                 [] options.verticalAlign = "bottom" ->
                      MathMax({NumOf(0), Minus(NumOf(drawHeight), blockHeight)})
                 [] OTHER -> NumOf(0)
  IN [contentWidth |-> contentWidth,
      contentHeight |-> contentHeight,
      lines |-> finalLines,
      baseY |-> baseY,
      cursorY |-> [i \in DOMAIN finalLines |-> Plus(baseY, Times(NumOf(i - 1), lineHeight))],
      startX |-> [i \in DOMAIN finalLines |->
                    toAlignedStartX(options.align, finalLines[i].width, contentWidth)]]

MaxChars == 4

TextChars == {"i", "m", " "}
\* a text and a run of a text are never empty
TextValues == SeqsUpTo(TextChars, MaxChars) \ {<<>>}
TextContents ==
  {<<value>> : value \in TextValues} \cup
  {<<a, b>> : a, b \in {<<"i">>, <<"m", "i">>, <<" ">>}}

TextOptionsValues ==
  [width : {None, Some(8), Some(16)},
   maxHeight : {None, Some(10), Some(100)},
   overflow : {"ellipsis", "hidden"},
   verticalAlign : {"top", "middle", "bottom"},
   align : {"left"},
   lineHeight : {None, Some(NumOf(20))},
   letterSpacing : {0, 1}]

\* no text given yet
NoText ==
  [fn |-> "renderToBuffer",
   content |-> <<>>,
   options |-> [width |-> None, maxHeight |-> None, overflow |-> "visible", verticalAlign |-> "top",
                align |-> "left", lineHeight |-> None, letterSpacing |-> 0],
   pc |-> "idle",
   lines |-> <<>>,
   out |-> Pending]

InitText ==
  /\ call = NoText
  /\ FontIdle
  /\ BuildIdle
  /\ RenderIdle
  /\ MaskIdle

\* renderToBuffer is called with a text: measureLines, and
\* applyEllipsisIfNeeded up to its loop
Measure ==
  /\ call = NoText
  /\ \E content \in TextContents, options \in TextOptionsValues :
       LET text == [NoText EXCEPT !.content = content, !.options = options]
           lines == measureLines(text)
       IN IF ~Truthy(options.maxHeight) \/ Len(lines) <= maxLines(options)
            THEN call' = [text EXCEPT !.lines = lines, !.pc = "draw"]
            ELSE LET visible == SubSeq(lines, 1, maxLines(options))
                 IN IF options.overflow # "ellipsis"
                      THEN call' = [text EXCEPT !.lines = visible, !.pc = "draw"]
                      ELSE call' = [text EXCEPT !.lines = visible, !.pc = "shrink"]
  /\ UNCHANGED <<registry, fontLoads, loadOrder>>
  /\ UNCHANGED <<buildVars, renderVars, maskVars>>

\* one round of the loop of applyEllipsisIfNeeded
Shrink ==
  /\ call.fn = "renderToBuffer"
  /\ call.pc = "shrink"
  /\ LET n == Len(call.lines)
     IN /\ MustShrink(call.lines[n], call.options)
        /\ call' = [call EXCEPT !.lines[n] = Shrunk(call.lines[n])]
  /\ UNCHANGED <<registry, fontLoads, loadOrder>>
  /\ UNCHANGED <<buildVars, renderVars, maskVars>>

\* the loop is over: the ellipsis run is pushed on the last visible line
PushEllipsis ==
  /\ call.fn = "renderToBuffer"
  /\ call.pc = "shrink"
  /\ LET n == Len(call.lines)
         last == call.lines[n]
     IN /\ ~MustShrink(last, call.options)
        /\ call' = [call EXCEPT
                      !.lines[n] = MeasuredLine(Append(last.runs, MeasuredRun(ellipsis, ellipsisWidth)),
                                                last.width + ellipsisWidth),
                      !.pc = "draw"]
  /\ UNCHANGED <<registry, fontLoads, loadOrder>>
  /\ UNCHANGED <<buildVars, renderVars, maskVars>>

\* the rest of renderToBuffer: canvas, vertical offset, one fillText per run
Draw ==
  /\ call.fn = "renderToBuffer"
  /\ call.pc = "draw"
  /\ call' = [call EXCEPT !.out = Returned(Layout(call.lines, call.options)), !.pc = "done"]
  /\ UNCHANGED <<registry, fontLoads, loadOrder>>
  /\ UNCHANGED <<buildVars, renderVars, maskVars>>

NextText == Measure \/ Shrink \/ PushEllipsis \/ Draw

SpecText == InitText /\ [][NextText]_vars

\* renderToBuffer is synchronous from its first line to its return: once it
\* is called, each of its steps is taken when its turn has come
SpecTextFair == SpecText /\ WF_vars(Shrink) /\ WF_vars(PushEllipsis) /\ WF_vars(Draw)

\* how many lines fit in maxHeight: the most whose heights add up to no more
\* than maxHeight, and one line at the least (no line is lower than a pixel)
LinesThatFit(options) ==
  Max({1} \cup {k \in 1..options.maxHeight[1] : LessEq(Times(NumOf(k), getLineHeight(options)),
                                      NumOf(options.maxHeight[1]))})

\* the text of the call is cut with an ellipsis
TruncatedWithEllipsis ==
  /\ call.fn = "renderToBuffer"
  /\ Truthy(call.options.maxHeight)
  /\ call.options.overflow = "ellipsis"
  /\ Len(measureLines(call)) > LinesThatFit(call.options)

RECURSIVE WidthOfRuns(_)
WidthOfRuns(runs) == IF runs = <<>> THEN 0 ELSE Head(runs).width + WidthOfRuns(Tail(runs))

\* C19: when text is cut with an ellipsis, the shrink loop comes to its end,
\* and from then on the lines that fit are kept, the last of them ends with
\* the ellipsis run and is as wide as its runs together, and either this
\* width is within the box or the ellipsis is all the line holds.
C19_EllipsisFitsOrStandsAlone ==
  /\ [](TruncatedWithEllipsis => <>(call.pc = "done" /\ call.out # Pending))
  /\ []((TruncatedWithEllipsis /\ call.pc \in {"draw", "done"}) =>
          LET last == call.lines[Len(call.lines)]
          IN /\ Len(call.lines) = LinesThatFit(call.options)
             /\ last.runs # <<>>
             /\ last.runs[Len(last.runs)] = MeasuredRun(ellipsis, ellipsisWidth)
             /\ last.width = WidthOfRuns(last.runs)
             /\ \/ call.options.width = None
                \/ last.width <= call.options.width[1]
                \/ last.runs = <<MeasuredRun(ellipsis, ellipsisWidth)>>)

\* "m m" in a box of width 8, narrower than the ellipsis: the second line is
\* cut, the first loses both its runs and shows the ellipsis alone
C19_Witness ==
  /\ call.fn = "renderToBuffer"
  /\ call.content = <<<<"m", " ", "m">>>>
  /\ call.options.width = Some(8)
  /\ call.options.maxHeight = Some(10)
  /\ call.options.overflow = "ellipsis"
  /\ call.pc = "done"
  /\ call.out.value.lines = <<MeasuredLine(<<MeasuredRun(ellipsis, 12)>>, 12)>>

NumEq(a, b) == a.num * b.den = b.num * a.den

\* C20: with verticalAlign 'middle' or 'bottom' and a maxHeight above the
\* height of the text block, the block starts (maxHeight - block height) / 2,
\* or maxHeight - block height, below the top; the offset is never negative.
C20_VerticalOffsetInsideMaxHeight ==
  (call.fn = "renderToBuffer" /\ call.pc = "done") =>
    LET options == call.options
        drawn == call.out.value
        blockHeight == Times(NumOf(Len(drawn.lines)), getLineHeight(options))
        room == Minus(NumOf(options.maxHeight[1]), blockHeight)
    IN /\ LessEq(NumOf(0), drawn.baseY)
       /\ (Truthy(options.maxHeight) /\ Less(NumOf(0), room)) =>
            /\ options.verticalAlign = "middle" => NumEq(drawn.baseY, Over(room, NumOf(2)))
            /\ options.verticalAlign = "bottom" => NumEq(drawn.baseY, room)
            /\ NumEq(drawn.cursorY[1], drawn.baseY)

\* ------------------------------------------------------------------------
\* Batching of operations for the batch backend
\* ------------------------------------------------------------------------
\* an operation that belongs in a batch
Batchable(op) ==
  /\ MagickSupports(op)
  /\ ~SharpSupports(op)
  /\ op.type \notin {"overlay", "group"}

\* the maximal runs of batchable operations of a list that begin before
\* index `before`: the pairs <<first, last>> of positions, in list order
MaximalRuns(ops, before) ==
  {r \in (1..Len(ops)) \X (1..Len(ops)) :
     /\ r[1] <= r[2]
     /\ r[1] < before
     /\ \A i \in r[1]..r[2] : Batchable(ops[i])
     /\ r[1] = 1 \/ ~Batchable(ops[r[1] - 1])
     /\ r[2] = Len(ops) \/ ~Batchable(ops[r[2] + 1])}

\* C21: the batches a processOperations call has handed to the batch backend
\* are the maximal runs of batchable operations it has come to, one call for
\* each run, holding the operations of the run in list order; a call that
\* returns has made as many batch calls as its list has maximal runs.
C21_BatchesAreTheMaximalRuns ==
  \A p \in FramesInUse :
    LET f == FrameAt(p)
        ops == OperationsOf(f)
        runs == MaximalRuns(ops, f.index)
    IN (f.dispatch /\ f.pc # "source") =>
         /\ Len(f.batches) = Cardinality(runs)
         /\ \A r \in runs :
              LET k == Cardinality({q \in runs : q[1] <= r[1]})
              IN f.batches[k] = SubSeq(ops, r[1], r[2])
         /\ f.pc = "done" => Len(f.batches) = Cardinality(MaximalRuns(ops, Len(ops) + 1))
         /\ f.pc = "magick" => mag[p[1]].operations = f.batches[Len(f.batches)]

\* swirl, flip, equalize: two runs of one operation each; the call returns
\* after two batch calls
C21_Witness ==
  /\ Len(stack[MainTask]) = 1
  /\ Top(MainTask).pc = "done"
  /\ Len(OperationsOf(Top(MainTask))) = 3
  /\ Top(MainTask).batches = <<<<OperationOf("swirl")>>, <<OperationOf("equalize")>>>>

\* ------------------------------------------------------------------------
\* The dispatcher on every operation the builder records
\* ------------------------------------------------------------------------
\* the type tags the methods of Asset record, one method for each
BUILDER_OPERATION_TYPES ==
  {"blur", "overlay", "group", "crop", "resize", "rotate", "flip", "flop", "roll",
   "distort", "grayscale", "negate", "normalize", "equalize", "autoLevel", "autoGamma",
   "gamma", "level", "linearStretch", "contrast", "posterize", "sepiaTone", "tint",
   "colorize", "threshold", "quantize", "segment", "sharpen", "adaptiveSharpen",
   "unsharpMask", "motionBlur", "rotationalBlur", "medianFilter", "addNoise",
   "despeckle", "waveletDenoise", "charcoal", "sketch", "oilPaint", "emboss",
   "solarize", "spread", "implode", "swirl", "wave", "vignette", "shade", "raise",
   "polaroid", "fx", "morphology", "detectEdges", "convolve", "border", "frame"}

\* ThresholdOptions.type as Asset.threshold records it: 'global' where none is given
ThresholdVariants == {"global", "adaptive", "black", "white"}

\* the operations the builder records, one of each kind the dispatcher tells apart
BuilderOperations ==
  {OperationOf(type) : type \in BUILDER_OPERATION_TYPES \ {"overlay", "group", "threshold"}}
    \cup {[OperationOf("threshold") EXCEPT !.variant = v] : v \in ThresholdVariants}
    \cup {OverlayOf("shape"), OverlayOf("a2"), GroupOf("a2")}

MaxPipeline == 1

InitAccept ==
  /\ \/ /\ operations \in {[a1 |-> l, a2 |-> <<>>] :
                              l \in SeqsUpTo(BuilderOperations, MaxPipeline) \ {<<>>}}
        /\ direct = NoDirect
     \/ /\ operations = [a \in Assets |-> <<>>]
        /\ direct \in [input : {SourceOf("Buffer", "img")},
                       operations : {<<op>> : op \in BuilderOperations
                                         \cup {OperationOf("hologram"), OperationOf("threshold")}}]
  /\ input = [a \in Assets |-> SourceOf("Buffer", "img")]
  /\ recorded = [a \in Assets |-> <<>>]
  /\ args = [position |-> [x |-> 30, y |-> 40],
             area |-> [x |-> Some(0), y |-> Some(0), width |-> Some(10), height |-> Some(10)],
             points |-> <<Point(10, 10), Point(0, 0), Point(10, 0)>>,
             groupOptions |-> [mask |-> "alpha"]]
  /\ lastCall = NoCall
  /\ ncalls = 0
  /\ returned = NoArray
  /\ LibraryIdle
  /\ stack = [t \in Tasks |-> <<>>]
  /\ mag = [t \in Tasks |-> IdleMagick]
  /\ cachedMagickCommand = "null"
  /\ tempDirs = {}
  /\ nextDir = 1
  /\ result = [t \in Tasks |-> [status |-> "none"]]
  /\ fellBack = [t \in Tasks |-> FALSE]
  /\ MaskIdle

SpecAccept == InitAccept /\ [][Next]_vars

\* the handler that left an effect on the bytes
HandlerOf(effect) ==
  CASE effect.alg = "composite" -> "compositor"
    [] effect.alg = "sharp" -> "raster"
    [] effect.alg \in {"magick", "approximation"} -> "batch"
    [] OTHER -> "none"

\* the handler an operation is in the hands of while the call waits for it
HandlerAt(pc) ==
  CASE pc \in {"overlay", "overlayWait", "overlayComposite",
               "group", "groupContent", "groupWait", "groupComposite", "groupFlatten"} -> "compositor"
    [] pc = "sharp" -> "raster"
    [] pc = "magick" -> "batch"
    [] OTHER -> "none"

\* the handler the precedence gives an operation
HandlerByPrecedence(op) ==
  IF op.type \in {"overlay", "group"} THEN "compositor"
  ELSE IF SharpSupports(op) THEN "raster"
  ELSE IF MagickSupports(op) THEN "batch"
  ELSE "none"

\* C22: every completed operation left one effect, that of the handler the
\* precedence gives it (compositor for overlay and group, else the raster
\* backend if it declares the operation, else the batch backend), and the
\* operation in flight is in the hands of that handler; blur and a threshold
\* of type 'global' (or of no type) are always the raster backend's, a
\* threshold of type 'adaptive', 'black' or 'white' is never.
C22_OneHandlerByPrecedence ==
  \A p \in FramesInUse :
    LET f == FrameAt(p)
        ops == OperationsOf(f)
        n == Completed(f)
        Raster(op) == \/ op.type = "blur"
                      \/ op.type = "threshold" /\ op.variant \in {"none", "global"}
        NeverRaster(op) == op.type = "threshold" /\ op.variant \in {"adaptive", "black", "white"}
    IN (f.dispatch /\ f.pc \notin {"source", "failed"}) =>
         /\ Len(f.currentBytes) = 1 + n
         /\ \A i \in 1..n :
              /\ f.currentBytes[i + 1].fx = ops[i].type
              /\ HandlerOf(f.currentBytes[i + 1]) = HandlerByPrecedence(ops[i])
              /\ Raster(ops[i]) => HandlerOf(f.currentBytes[i + 1]) = "raster"
              /\ NeverRaster(ops[i]) => HandlerOf(f.currentBytes[i + 1]) = "batch"
         /\ f.pc \notin {"loop", "done"} =>
              \A i \in (n + 1)..(IF f.pc = "magick" THEN f.index - 1 ELSE f.index) :
                /\ HandlerAt(f.pc) = HandlerByPrecedence(ops[i])
                /\ Raster(ops[i]) => f.pc = "sharp"
                /\ NeverRaster(ops[i]) => f.pc = "magick"

\* a threshold of type 'adaptive' was run by the external batch process
C22_Witness ==
  /\ Len(stack[MainTask]) = 1
  /\ Top(MainTask).pc = "done"
  /\ OperationsOf(Top(MainTask)) = <<[OperationOf("threshold") EXCEPT !.variant = "adaptive"]>>
  /\ Top(MainTask).currentBytes[2] = Effect("threshold", "magick", <<>>)


\* C29: a pipeline built through the builder methods holds only operations
\* the dispatcher accepts (overlay or group, or declared by the raster
\* backend, or declared by the batch backend), so its export never fails
\* with the error that names an operation without a renderer: an export
\* fails only on undecodable bytes or in the batch backend.
C29_BuilderPipelinesAreAccepted ==
  direct = NoDirect =>
    /\ \A a \in Assets : \A i \in 1..Len(operations[a]) :
         /\ operations[a][i].type \in BUILDER_OPERATION_TYPES
         /\ \/ operations[a][i].type \in {"overlay", "group"}
            \/ SharpSupports(operations[a][i])
            \/ MagickSupports(operations[a][i])
    /\ \A p \in FramesInUse : FrameAt(p).pc = "failed" => FrameAt(p).error \in {"decode", "magick"}
    /\ \A t \in Tasks : result[t].status = "rejected" => result[t].error \in {"decode", "magick", <<>>}

\* an export of a pipeline holding the last builder method's operation
\* (frame, declared by the batch backend alone) resolved
C29_Witness ==
  /\ direct = NoDirect
  /\ operations["a1"] = <<OperationOf("frame")>>
  /\ result[MainTask].status = "resolved"
  /\ Len(result[MainTask].bytes) = 2
  /\ result[MainTask].bytes[2] = Effect("frame", "magick", <<>>)


\* C28: a batch call whose external process succeeded settles with the
\* output the process wrote: the read of output.png is over before the
\* temporary directory is removed, so the call resolves, with the converted
\* bytes.
C28_ReadCompletesBeforeRemoval ==
  \A t \in Tasks :
    (mag[t].outcome = "ok" /\ mag[t].pc \in {"resolved", "rejected"}) =>
      /\ mag[t].pc = "resolved"
      /\ mag[t].value = Converted(mag[t].input, mag[t].operations, "magick")


\* C26: the metrics of a shape are computed for every bounds a path can
\* have, degenerate (no width, no height, a single point) and non-finite
\* ones too: the normalized content box starts at (0,0) and measures at
\* least 1 by 1, and the canvas at least 1 + 2 * padding on each axis.
C26_DegenerateBoundsGiveACanvas ==
  (call.fn = "buildMetrics" /\ call.out # Pending) =>
    LET m == call.out.value
        box == m.pathMetrics
    IN /\ ~call.out.threw
       /\ box.left = NumOf(0)
       /\ box.top = NumOf(0)
       /\ IsFinite(box.right) /\ LessEq(NumOf(1), Minus(box.right, box.left))
       /\ IsFinite(box.bottom) /\ LessEq(NumOf(1), Minus(box.bottom, box.top))
       /\ m.padding >= 2
       /\ m.canvasWidth >= 1 + 2 * m.padding
       /\ m.canvasHeight >= 1 + 2 * m.padding

\* the metrics of a horizontal Line from (2,5) to (9,5) without a stroke
C26_Witness ==
  /\ call.fn = "buildMetrics"
  /\ call.out # Pending
  /\ call.bounds = BoundsOf(NumOf(2), NumOf(5), NumOf(9), NumOf(5))
  /\ call.strokeValue = NoStroke
  /\ call.effects = <<>>
  /\ call.out.value.pathMetrics.right = NumOf(7)
  /\ call.out.value.pathMetrics.bottom = NumOf(1)
  /\ call.out.value.canvasWidth = 11
  /\ call.out.value.canvasHeight = 5


\* ------------------------------------------------------------------------
\* Drawing a shape (render/shape.ts, SubmoduleRenderServiceShape.renderToBuffer)
\* ------------------------------------------------------------------------
MathMin(S) == CHOOSE a \in S : \A b \in S : ~Less(b, a)

PointAt(x, y) == [x |-> NumOf(x), y |-> NumOf(y)]

\* new Line({ start, end, startCap, endCap })
LineOf(start, end, startCap, endCap) ==
  [kind |-> "line", points |-> <<start, end>>, startCap |-> startCap, endCap |-> endCap]

\* new Rectangle({ width: 3, height: 2 })
RectangleShape ==
  [kind |-> "rectangle",
   points |-> <<PointAt(0, 0), PointAt(3, 0), PointAt(3, 2), PointAt(0, 2)>>,
   startCap |-> "none", endCap |-> "none"]

\* path.computeTightBounds() of a path of straight segments
computeTightBounds(points) ==
  BoundsOf(MathMin({points[i].x : i \in DOMAIN points}),
           MathMin({points[i].y : i \in DOMAIN points}),
           MathMax({points[i].x : i \in DOMAIN points}),
           MathMax({points[i].y : i \in DOMAIN points}))

\* path.transform({ a: 1, b: 0, c: 0, d: 1, e: -safeLeft, f: -safeTop })
NormalizedPath(points) ==
  LET bounds == computeTightBounds(points)
      safeLeft == IF IsFinite(bounds.left) THEN bounds.left ELSE NumOf(0)
      safeTop == IF IsFinite(bounds.top) THEN bounds.top ELSE NumOf(0)
  IN [i \in DOMAIN points |-> [x |-> Minus(points[i].x, safeLeft), y |-> Minus(points[i].y, safeTop)]]

\* context.translate(dx, dy): where a point of the current space falls on the canvas
Translated(point, dx, dy) == [x |-> Plus(point.x, dx), y |-> Plus(point.y, dy)]

\* one drawing call on the canvas: what was drawn, for which effect of the
\* list (0 for the shape itself), and the canvas positions of its points
Drawing(what, effect, at) == [what |-> what, effect |-> effect, at |-> at]

PathOnCanvas(sh, metrics) ==
  LET path == NormalizedPath(sh.points)
  IN [i \in DOMAIN path |-> Translated(path[i], NumOf(metrics.translateX), NumOf(metrics.translateY))]

\* applyLineCaps(context, shape, stroke), inside the translation of drawBaseShape:
\* drawArrowCap translates the context by the point it is given
applyLineCaps(sh, stroke, metrics) ==
  IF sh.kind # "line" \/ stroke = NoStroke
    THEN <<>>
    ELSE LET Anchor(point) ==
               <<Translated(point, NumOf(metrics.translateX), NumOf(metrics.translateY))>>
         IN (IF sh.startCap # "none" THEN <<Drawing("startCap", 0, Anchor(sh.points[1]))>> ELSE <<>>)
              \o (IF sh.endCap # "none" THEN <<Drawing("endCap", 0, Anchor(sh.points[2]))>> ELSE <<>>)

BaseShapeDrawingsStrokeFirst(sh, fill, stroke, metrics) ==
  (IF stroke # NoStroke THEN <<Drawing("stroke", 0, PathOnCanvas(sh, metrics))>> ELSE <<>>)
    \o (IF fill # "null" THEN <<Drawing("fill", 0, PathOnCanvas(sh, metrics))>> ELSE <<>>)
    \o applyLineCaps(sh, stroke, metrics)

\* drawBaseShape(context, shape, metrics): what it draws, in order
BaseShapeDrawings(sh, fill, stroke, metrics) ==
  (IF fill # "null" THEN <<Drawing("fill", 0, PathOnCanvas(sh, metrics))>> ELSE <<>>)
    \o (IF stroke # NoStroke THEN <<Drawing("stroke", 0, PathOnCanvas(sh, metrics))>> ELSE <<>>)
    \o applyLineCaps(sh, stroke, metrics)

TextureEffect == [type |-> "texture", config |-> [source |-> "texture.png"]]

MaxDrawnEffects == 2

DrawnEffects ==
  {ShadowEffect("drop-shadow", NumOf(-3), NumOf(1), Num(1, 2), None),
   ShadowEffect("inner-shadow", NumOf(0), NumOf(4), NumOf(1), Some(NumOf(-2))),
   BlurEffect("layer-blur", Num(3, 2)),
   BlurEffect("background-blur", NumOf(0)),
   GlassEffect(NumOf(1)),
   NoiseEffect,
   TextureEffect}

LineEnds == {PointAt(0, 0), PointAt(10, 20), PointAt(50, 20)}

DrawnShapes ==
  {RectangleShape} \cup
  {LineOf(start, end, startCap, endCap) :
     start \in LineEnds, end \in LineEnds,
     startCap \in {"none", "arrow"}, endCap \in {"none", "circle-filled"}}

NewRender(sh, fill, stroke, effects) ==
  [fn |-> "renderToBuffer", shape |-> sh, fillValue |-> fill, strokeValue |-> stroke,
   effects |-> effects, pc |-> "start", index |-> 0, metrics |-> None, drawn |-> <<>>,
   out |-> Pending]

InitDraw ==
  /\ call \in {NewRender(sh, fill, stroke, effects) :
                 sh \in DrawnShapes, fill \in {"null", "red"},
                 stroke \in {NoStroke, StrokeOf(NumOf(2), "center")},
                 effects \in SeqsUpTo(DrawnEffects, MaxDrawnEffects)}
  /\ FontIdle
  /\ BuildIdle
  /\ RenderIdle
  /\ MaskIdle

\* const metrics = buildMetrics(shape); createCanvas(...); getContext('2d')
RenderStart ==
  /\ call.fn = "renderToBuffer"
  /\ call.pc = "start"
  /\ call' = [call EXCEPT !.pc = "shadows", !.index = 1,
                          !.metrics = Some(buildMetrics([bounds |-> computeTightBounds(call.shape.points),
                                                         strokeValue |-> call.strokeValue,
                                                         effects |-> call.effects]))]
  /\ UNCHANGED <<registry, fontLoads, loadOrder>>
  /\ UNCHANGED <<buildVars, renderVars, maskVars>>

\* one turn of the first loop over metrics.effects
DropShadowStep ==
  /\ call.fn = "renderToBuffer"
  /\ call.pc = "shadows"
  /\ call.index <= Len(call.effects)
  /\ call' = [call EXCEPT !.index = @ + 1,
                          !.drawn = IF call.effects[call.index].type = "drop-shadow"
                                      THEN Append(@, Drawing("drop-shadow", call.index,
                                                             PathOnCanvas(call.shape, call.metrics[1])))
                                      ELSE @]
  /\ UNCHANGED <<registry, fontLoads, loadOrder>>
  /\ UNCHANGED <<buildVars, renderVars, maskVars>>

\* drawBaseShape(context, shape, metrics), after the first loop
DrawBaseShape ==
  /\ call.fn = "renderToBuffer"
  /\ call.pc = "shadows"
  /\ call.index > Len(call.effects)
  /\ call' = [call EXCEPT !.pc = "effects", !.index = 1,
                          !.drawn = @ \o BaseShapeDrawings(call.shape, call.fillValue, call.strokeValue,
                                                       call.metrics[1])]
  /\ UNCHANGED <<registry, fontLoads, loadOrder>>
  /\ UNCHANGED <<buildVars, renderVars, maskVars>>

\* one turn of the second loop over metrics.effects
ApplyEffect ==
  /\ call.fn = "renderToBuffer"
  /\ call.pc = "effects"
  /\ call.index <= Len(call.effects)
  /\ call' = [call EXCEPT !.index = @ + 1,
                          !.drawn = IF call.effects[call.index].type
                                         \in {"layer-blur", "background-blur", "noise", "texture",
                                              "glass", "inner-shadow"}
                                      THEN Append(@, Drawing(call.effects[call.index].type, call.index, <<>>))
                                      ELSE @]
  /\ UNCHANGED <<registry, fontLoads, loadOrder>>
  /\ UNCHANGED <<buildVars, renderVars, maskVars>>

\* return canvas.toBuffer('image/png')
ToBuffer ==
  /\ call.fn = "renderToBuffer"
  /\ call.pc = "effects"
  /\ call.index > Len(call.effects)
  /\ call' = [call EXCEPT !.pc = "done", !.out = Returned(call.drawn)]
  /\ UNCHANGED <<registry, fontLoads, loadOrder>>
  /\ UNCHANGED <<buildVars, renderVars, maskVars>>

NextDraw ==
  \/ RenderStart
  \/ DropShadowStep
  \/ DrawBaseShape
  \/ ApplyEffect
  \/ ToBuffer

SpecDraw == InitDraw /\ [][NextDraw]_vars

\* the positions in the effects list of the effects of the given types, in list order
RECURSIVE EffectsOfTypes(_, _, _)
EffectsOfTypes(effects, types, from) ==
  IF from > Len(effects) THEN <<>>
  ELSE (IF effects[from].type \in types THEN <<from>> ELSE <<>>)
         \o EffectsOfTypes(effects, types, from + 1)

\* C23: what a shape's rendering has drawn is, at every moment, a prefix of:
\* every drop-shadow of the effects list in list order, then the fill (if
\* the shape has one), the stroke (if it has one) and the line caps, then
\* every other effect in list order; and all of it when the call returns.
C23_DrawingOrder ==
  call.fn = "renderToBuffer" =>
    LET shadows == EffectsOfTypes(call.effects, {"drop-shadow"}, 1)
        others == EffectsOfTypes(call.effects,
                                 {"layer-blur", "background-blur", "noise", "texture", "glass",
                                  "inner-shadow"}, 1)
        caps == IF call.shape.kind = "line" /\ call.strokeValue # NoStroke
                  THEN (IF call.shape.startCap # "none" THEN <<"startCap">> ELSE <<>>)
                         \o (IF call.shape.endCap # "none" THEN <<"endCap">> ELSE <<>>)
                  ELSE <<>>
        base == (IF call.fillValue # "null" THEN <<"fill">> ELSE <<>>)
                  \o (IF call.strokeValue # NoStroke THEN <<"stroke">> ELSE <<>>)
                  \o caps
        expected == [i \in DOMAIN shadows |-> <<"drop-shadow", shadows[i]>>]
                      \o [i \in DOMAIN base |-> <<base[i], 0>>]
                      \o [i \in DOMAIN others |-> <<call.effects[others[i]].type, others[i]>>]
        done == [i \in DOMAIN call.drawn |-> <<call.drawn[i].what, call.drawn[i].effect>>]
    IN /\ IsPrefix(done, expected)
       /\ Len(shadows) + Len(others) = Len(call.effects)
       /\ call.pc = "effects" => Len(done) >= Len(shadows) + Len(base)
       /\ call.pc = "done" => done = expected /\ call.out = Returned(call.drawn)

\* a Line with both caps, a fill and a stroke, under a glass effect listed
\* before a drop-shadow: shadow, fill, stroke, caps, glass
C23_Witness ==
  /\ call.fn = "renderToBuffer"
  /\ call.pc = "done"
  /\ call.shape.kind = "line"
  /\ call.effects = <<GlassEffect(NumOf(1)), ShadowEffect("drop-shadow", NumOf(-3), NumOf(1), Num(1, 2), None)>>
  /\ [i \in DOMAIN call.drawn |-> call.drawn[i].what]
       = <<"drop-shadow", "fill", "stroke", "startCap", "endCap", "glass">>


\* C30: a cap of a stroked Line is drawn at the canvas position of the end
\* of the stroked line it belongs to: the start cap where the stroke
\* starts, the end cap where it ends.
C30_CapsAtTheLineEnds ==
  call.fn = "renderToBuffer" =>
    \A i, j \in DOMAIN call.drawn :
      LET cap == call.drawn[i]
          line == call.drawn[j]
      IN (line.what = "stroke" /\ cap.what \in {"startCap", "endCap"}) =>
           cap.at[1] = line.at[IF cap.what = "startCap" THEN 1 ELSE 2]


\* ------------------------------------------------------------------------
\* Two exports at once (Asset.export of two assets, both pending)
\* ------------------------------------------------------------------------
\* the asset each task exports
AssetOf == [t \in Tasks |-> IF t = "t1" THEN "a1" ELSE "a2"]

ConcurrentPipelines ==
  {<<OperationOf("swirl")>>,
   <<OperationOf("flip"), OperationOf("equalize")>>,
   <<OperationOf("swirl"), OperationOf("flip"), OperationOf("equalize")>>}

InitConcurrent ==
  /\ operations \in {[a1 |-> l1, a2 |-> l2] : l1 \in ConcurrentPipelines, l2 \in ConcurrentPipelines}
  /\ direct = NoDirect
  /\ input = [a \in Assets |-> SourceOf("Buffer", "img")]
  /\ recorded = [a \in Assets |-> <<>>]
  /\ args = [position |-> [x |-> 30, y |-> 40],
             area |-> [x |-> Some(0), y |-> Some(0), width |-> Some(10), height |-> Some(10)],
             points |-> <<Point(10, 10), Point(0, 0), Point(10, 0)>>,
             groupOptions |-> [mask |-> "alpha"]]
  /\ lastCall = NoCall
  /\ ncalls = 0
  /\ returned = NoArray
  /\ LibraryIdle
  /\ stack = [t \in Tasks |-> <<>>]
  /\ mag = [t \in Tasks |-> IdleMagick]
  /\ cachedMagickCommand \in {"null", "magick"}
  /\ tempDirs = {}
  /\ nextDir = 1
  /\ result = [t \in Tasks |-> [status |-> "none"]]
  /\ fellBack = [t \in Tasks |-> FALSE]
  /\ MaskIdle

NextConcurrent ==
  \E t \in Tasks :
    \/ StartExport(t, AssetOf[t])
    \/ SourceLoaded(t)
    \/ Dispatch(t)
    \/ SharpDone(t)
    \/ Settle(t)
    \/ Tick(t)
    \/ ProbeMagickOk(t)
    \/ ProbeMagickFail(t)
    \/ ProbeConvertOk(t)
    \/ ProbeConvertFail(t)
    \/ Mkdtemp(t)
    \/ Prepare(t)
    \/ ExecOk(t)
    \/ ExecFail(t)
    \/ Finally(t)
    \/ Fallback(t)
    \/ MagickReturn(t)

SpecConcurrent == InitConcurrent /\ [][NextConcurrent]_vars

Probing(m) == m.pc \in {"probeMagick", "probeConvert"}

\* C24: once the cached command holds a value, no step changes it and no
\* step starts a probe of an executable.
C24_CachedCommandReadOnly ==
  [][cachedMagickCommand # "null" =>
       /\ cachedMagickCommand' = cachedMagickCommand
       /\ \A t \in Tasks : Probing(mag'[t]) => mag'[t].pc = mag[t].pc]_vars


InDirectory(m) == m.pc \in {"prepare", "exec", "finally"}

\* the state of one export: its frames, its batch call, its result
ExportState(t) == <<stack[t], mag[t], result[t], fellBack[t]>>

\* C25: two exports of different assets that are pending together: each
\* settles with a result its own pipeline gives alone (its source followed by
\* one effect for each of its operations in list order, by the handler of that
\* operation, or the failure of its own batch call), each batch call has a
\* temporary directory of its own that exists as long as the call uses it,
\* each batch call works on the bytes of its own export, and no step of one
\* export changes the frames, the batch call or the result of the other.
C25_ConcurrentExportsDoNotInterfere ==
  /\ [](\A t \in Tasks :
          LET ops == operations[AssetOf[t]]
              bytes == result[t].bytes
          IN /\ result[t].status = "resolved" =>
                  /\ Len(bytes) = 1 + Len(ops)
                  /\ bytes[1] = toSourceBuffer(input[AssetOf[t]])[1]
                  /\ \A i \in DOMAIN ops :
                       /\ bytes[i + 1].fx = ops[i].type
                       /\ bytes[i + 1].alg \in (IF SharpSupports(ops[i]) THEN {"sharp"}
                                                ELSE {"magick", "approximation"})
             /\ result[t].status = "rejected" => result[t].error = "magick"
             /\ \A k \in DOMAIN stack[t] : stack[t][k].asset = AssetOf[t]
             /\ mag[t].pc # "idle" => mag[t].input = Top(t).currentBytes
             /\ InDirectory(mag[t]) =>
                  /\ mag[t].dir \in tempDirs
                  /\ \A u \in Tasks \ {t} : InDirectory(mag[u]) => mag[u].dir # mag[t].dir)
  /\ [][\A t, u \in Tasks :
          (t # u /\ ExportState(t)' # ExportState(t)) => ExportState(u)' = ExportState(u)]_vars

\* both exports are waiting for their external process, each in its directory
C25_Witness ==
  /\ mag["t1"].pc = "exec"
  /\ mag["t2"].pc = "exec"
  /\ mag["t1"].dir # mag["t2"].dir
  /\ {mag["t1"].dir, mag["t2"].dir} = tempDirs
  /\ operations["a1"] # operations["a2"]


\* ------------------------------------------------------------------------
\* Builder calls on an asset whose export is pending
\* ------------------------------------------------------------------------
InitAmend ==
  /\ operations \in {[a1 |-> l, a2 |-> <<>>] :
                       l \in {<<OperationOf("flip")>>, <<OperationOf("swirl")>>,
                              <<OperationOf("flip"), OperationOf("equalize")>>}}
  /\ direct = NoDirect
  /\ input = [a \in Assets |-> SourceOf("Buffer", "img")]
  /\ recorded = [a \in Assets |-> <<>>]
  /\ args = [position |-> [x |-> 30, y |-> 40],
             area |-> [x |-> Some(0), y |-> Some(0), width |-> Some(10), height |-> Some(10)],
             points |-> <<Point(10, 10), Point(0, 0), Point(10, 0)>>,
             groupOptions |-> [mask |-> "alpha"]]
  /\ lastCall = NoCall
  /\ ncalls = 0
  /\ returned = NoArray
  /\ LibraryIdle
  /\ stack = [t \in Tasks |-> <<>>]
  /\ mag = [t \in Tasks |-> IdleMagick]
  /\ cachedMagickCommand \in {"null", "magick"}
  /\ tempDirs = {}
  /\ nextDir = 1
  /\ result = [t \in Tasks |-> [status |-> "none"]]
  /\ fellBack = [t \in Tasks |-> FALSE]
  /\ MaskIdle

NextAmend ==
  \/ StartExport(MainTask, "a1")
  \/ Plain("a1")
  \/ SourceLoaded(MainTask)
  \/ Dispatch(MainTask)
  \/ SharpDone(MainTask)
  \/ Settle(MainTask)
  \/ Tick(MainTask)
  \/ ProbeMagickOk(MainTask)
  \/ ProbeMagickFail(MainTask)
  \/ ProbeConvertOk(MainTask)
  \/ ProbeConvertFail(MainTask)
  \/ Mkdtemp(MainTask)
  \/ Prepare(MainTask)
  \/ ExecOk(MainTask)
  \/ ExecFail(MainTask)
  \/ Finally(MainTask)
  \/ Fallback(MainTask)
  \/ MagickReturn(MainTask)

SpecAmend == InitAmend /\ [][NextAmend]_vars

\* C27: an export renders the operations its asset held when export was
\* called, whatever the builder records on the asset while the export is
\* pending: it never runs more operations than those, and it returns their
\* effects, one for each, in their order.
C27_ExportRendersOperationsAtCall ==
  \A p \in FramesInUse :
    LET f == FrameAt(p)
    IN (f.kind = "export" /\ f.dispatch /\ f.pc \notin {"source", "failed"}) =>
         /\ f.index <= Len(f.called) + 1
         /\ f.pc = "done" =>
              /\ Len(f.currentBytes) = 1 + Len(f.called)
              /\ \A i \in DOMAIN f.called : f.currentBytes[i + 1].fx = f.called[i].type

====
